---- MODULE Spec2Model ----
(***************************************************************************)
(* arc::uint128 / arc::int128 (include/int128.hpp).                        *)
(*                                                                         *)
(* The header has two backends, selected at build time by                  *)
(* ARC_HAS_NATIVE_INT128: the native one keeps a single (unsigned)         *)
(* __int128 in data_, the portable one keeps two 64-bit limbs m_hi, m_lo.  *)
(* Both are modelled, side by side: every action applies one public        *)
(* operator to the operands under both backends and records what           *)
(* high() and low() of the result return.                                  *)
(*                                                                         *)
(* Widths are scaled: a limb has LimbBits = 2 * HalfBits bits (64 in the   *)
(* header) and a value has Bits = 2 * LimbBits bits (128).  Every shift    *)
(* count, mask and wrap of the header is written in terms of these         *)
(* widths, so that 32, 63, 64 and 128 become HalfBits, LimbBits - 1,       *)
(* LimbBits and Bits.                                                      *)
(*                                                                         *)
(* Undefined behaviour (signed overflow of a built-in type, a built-in     *)
(* shift by at least the width) is a choice among the outcomes builds      *)
(* produce: the wrapped / masked value, the saturated value, or a trap     *)
(* (-ftrapv, sanitizers).                                                  *)
(***************************************************************************)
EXTENDS Integers, FiniteSets, Sequences, TLC

\* Width of half a limb (the header splits 64-bit limbs into 32-bit halves).
HalfBits == 2
\* Shift amounts run from 0 to Bits + MaxOverShift.
MaxOverShift == 2

LimbBits == 2 * HalfBits
Bits == 2 * LimbBits

Pow2(n) == 2 ^ n

HalfMod == Pow2(HalfBits)
LimbMod == Pow2(LimbBits)
WordMod == Pow2(Bits)
HalfMask == HalfMod - 1
LimbMax == LimbMod - 1
SignBit64 == Pow2(LimbBits - 1)
Int64Min == 0 - SignBit64
Int64Max == SignBit64 - 1
Int128Min == 0 - Pow2(Bits - 1)
Int128Max == Pow2(Bits - 1) - 1

(***************************************************************************)
(* Built-in integer arithmetic of the limb types.                          *)
(***************************************************************************)
\* uint64_t arithmetic wraps modulo 2^64.
U64(x) == x % LimbMod
\* static_cast<int64_t>(uint64_t): modular (C++20).
ToInt64(u) == IF u >= SignBit64 THEN u - LimbMod ELSE u
\* static_cast<uint64_t>(int64_t)
ToUint64(s) == s % LimbMod
\* x << n and x >> n on uint64_t, 0 <= n < 64
Shl64(x, n) == (x * Pow2(n)) % LimbMod
Shr64(x, n) == x \div Pow2(n)
\* x >> n on int64_t: arithmetic (C++20), 0 <= n < 64
Sar64(s, n) == ToInt64((ToUint64(s) \div Pow2(n))
                        + (IF s < 0 THEN LimbMod - Pow2(LimbBits - n) ELSE 0))
\* x << n on int64_t: modular (C++20)
Sal64(s, n) == ToInt64(Shl64(ToUint64(s), n))
\* ~x on uint64_t and on int64_t
Not64(x) == LimbMax - x
NotInt64(s) == (0 - s) - 1

RECURSIVE BitOr(_, _)
BitOr(x, y) ==
    IF x = 0 THEN y
    ELSE IF y = 0 THEN x
    ELSE (IF x % 2 = 1 \/ y % 2 = 1 THEN 1 ELSE 0) + 2 * BitOr(x \div 2, y \div 2)

RECURSIVE BitAnd(_, _)
BitAnd(x, y) ==
    IF x = 0 \/ y = 0 THEN 0
    ELSE (IF x % 2 = 1 /\ y % 2 = 1 THEN 1 ELSE 0) + 2 * BitAnd(x \div 2, y \div 2)

RECURSIVE BitXor(_, _)
BitXor(x, y) ==
    IF x = 0 THEN y
    ELSE IF y = 0 THEN x
    ELSE (IF (x % 2) # (y % 2) THEN 1 ELSE 0) + 2 * BitXor(x \div 2, y \div 2)

(***************************************************************************)
(* Portable backend, uint128: a record [hi, lo] of two uint64_t limbs.     *)
(***************************************************************************)
uint128_from_parts(high, low) == [hi |-> high, lo |-> low]

\* uint128(unsigned long long v)
uint128_ctor_u64(v) == [hi |-> 0, lo |-> v]

\* uint128(long long v) with the high limb left zero
uint128_ctor_int_zero_extend(v) == [hi |-> 0, lo |-> ToUint64(v)]

\* uint128(int v), uint128(long v), uint128(long long v)
uint128_ctor_int(v) == [hi |-> (IF v < 0 THEN LimbMax ELSE 0), lo |-> ToUint64(v)]

uint128_eq(lhs, rhs) == lhs.lo = rhs.lo /\ lhs.hi = rhs.hi

uint128_lt(lhs, rhs) ==
    IF lhs.hi = rhs.hi THEN lhs.lo < rhs.lo ELSE lhs.hi < rhs.hi

uint128_ne(lhs, rhs) == ~uint128_eq(lhs, rhs)

uint128_gt(lhs, rhs) == uint128_lt(rhs, lhs)

uint128_le(lhs, rhs) == ~uint128_lt(rhs, lhs)

uint128_ge(lhs, rhs) == ~uint128_lt(lhs, rhs)

\* uint128_plus with the carry into the high limb left out
uint128_plus_no_carry(lhs, rhs) ==
    uint128_from_parts(U64(lhs.hi + rhs.hi), U64(lhs.lo + rhs.lo))

\* uint128_plus with the carry test written result.low() <= lhs.low()
uint128_plus_carry_le(lhs, rhs) ==
    LET result == uint128_from_parts(U64(lhs.hi + rhs.hi), U64(lhs.lo + rhs.lo))
    IN  IF result.lo <= lhs.lo
        THEN uint128_from_parts(U64(result.hi + 1), result.lo)
        ELSE result

uint128_plus(lhs, rhs) ==
    LET result == uint128_from_parts(U64(lhs.hi + rhs.hi), U64(lhs.lo + rhs.lo))
    IN  IF result.lo < lhs.lo
        THEN uint128_from_parts(U64(result.hi + 1), result.lo)
        ELSE result

\* uint128_minus with the borrow test written lhs.low() <= rhs.low()
uint128_minus_borrow_le(lhs, rhs) ==
    LET result == uint128_from_parts(U64(lhs.hi - rhs.hi), U64(lhs.lo - rhs.lo))
    IN  IF lhs.lo <= rhs.lo
        THEN uint128_from_parts(U64(result.hi - 1), result.lo)
        ELSE result

uint128_minus(lhs, rhs) ==
    LET result == uint128_from_parts(U64(lhs.hi - rhs.hi), U64(lhs.lo - rhs.lo))
    IN  IF lhs.lo < rhs.lo
        THEN uint128_from_parts(U64(result.hi - 1), result.lo)
        ELSE result

uint128_or(lhs, rhs) ==
    uint128_from_parts(BitOr(lhs.hi, rhs.hi), BitOr(lhs.lo, rhs.lo))

uint128_and(lhs, rhs) ==
    uint128_from_parts(BitAnd(lhs.hi, rhs.hi), BitAnd(lhs.lo, rhs.lo))

uint128_xor(lhs, rhs) ==
    uint128_from_parts(BitXor(lhs.hi, rhs.hi), BitXor(lhs.lo, rhs.lo))

\* uint128_shl without the bits of the low limb that cross into the high limb
uint128_shl_no_cross(lhs, amount) ==
    IF amount = 0 THEN lhs
    ELSE IF amount >= Bits THEN uint128_ctor_int(0)
    ELSE IF amount >= LimbBits
         THEN uint128_from_parts(Shl64(lhs.lo, amount - LimbBits), 0)
    ELSE uint128_from_parts(Shl64(lhs.hi, amount), Shl64(lhs.lo, amount))

uint128_shl(lhs, amount) ==
    IF amount = 0 THEN lhs
    ELSE IF amount >= Bits THEN uint128_ctor_int(0)
    ELSE IF amount >= LimbBits
         THEN uint128_from_parts(Shl64(lhs.lo, amount - LimbBits), 0)
    ELSE uint128_from_parts(
             BitOr(Shl64(lhs.hi, amount), Shr64(lhs.lo, LimbBits - amount)),
             Shl64(lhs.lo, amount))

\* uint128_shr with the crossing bits shifted by 64 - amount - 1
uint128_shr_off_by_one(lhs, amount) ==
    IF amount = 0 THEN lhs
    ELSE IF amount >= Bits THEN uint128_ctor_int(0)
    ELSE IF amount >= LimbBits
         THEN uint128_from_parts(0, Shr64(lhs.hi, amount - LimbBits))
    ELSE uint128_from_parts(
             Shr64(lhs.hi, amount),
             BitOr(Shr64(lhs.lo, amount), Shl64(lhs.hi, LimbBits - amount - 1)))

uint128_shr(lhs, amount) ==
    IF amount = 0 THEN lhs
    ELSE IF amount >= Bits THEN uint128_ctor_int(0)
    ELSE IF amount >= LimbBits
         THEN uint128_from_parts(0, Shr64(lhs.hi, amount - LimbBits))
    ELSE uint128_from_parts(
             Shr64(lhs.hi, amount),
             BitOr(Shr64(lhs.lo, amount), Shl64(lhs.hi, LimbBits - amount)))

\* operator-(uint128)
uint128_not(val) == uint128_from_parts(Not64(val.hi), Not64(val.lo))

\* operator-(uint128) without the carry into the high limb
uint128_neg_no_carry(val) ==
    uint128_from_parts(Not64(val.hi), U64(Not64(val.lo) + 1))

uint128_neg(val) ==
    uint128_from_parts(U64(Not64(val.hi) + (IF val.lo = 0 THEN 1 ELSE 0)),
                       U64(Not64(val.lo) + 1))

\* multiply_portable without the a32 * b32 term of the high limb
multiply_portable_no_high_term(lhs_high, lhs_low, rhs_high, rhs_low) ==
    LET a32 == Shr64(lhs_low, HalfBits)
        a00 == BitAnd(lhs_low, HalfMask)
        b32 == Shr64(rhs_low, HalfBits)
        b00 == BitAnd(rhs_low, HalfMask)
        result0 == uint128_from_parts(
                       U64(lhs_high * rhs_low + lhs_low * rhs_high),
                       U64(a00 * b00))
        result1 == uint128_plus(result0,
                       uint128_shl(uint128_ctor_u64(U64(a32 * b00)), HalfBits))
        result2 == uint128_plus(result1,
                       uint128_shl(uint128_ctor_u64(U64(a00 * b32)), HalfBits))
    IN  result2

multiply_portable(lhs_high, lhs_low, rhs_high, rhs_low) ==
    LET a32 == Shr64(lhs_low, HalfBits)
        a00 == BitAnd(lhs_low, HalfMask)
        b32 == Shr64(rhs_low, HalfBits)
        b00 == BitAnd(rhs_low, HalfMask)
        result0 == uint128_from_parts(
                       U64(lhs_high * rhs_low + lhs_low * rhs_high + a32 * b32),
                       U64(a00 * b00))
        result1 == uint128_plus(result0,
                       uint128_shl(uint128_ctor_u64(U64(a32 * b00)), HalfBits))
        result2 == uint128_plus(result1,
                       uint128_shl(uint128_ctor_u64(U64(a00 * b32)), HalfBits))
    IN  result2

\* operator*(uint128, uint128), #else branch
uint128_times(lhs, rhs) == multiply_portable(lhs.hi, lhs.lo, rhs.hi, rhs.lo)

\* The while loop of divide_portable: doubles temp and counts the doublings.
RECURSIVE shift_scan(_, _, _)
shift_scan(temp, shift, remainder) ==
    IF uint128_le(temp, remainder) /\ temp.hi < SignBit64
    THEN shift_scan(uint128_shl(temp, 1), shift + 1, remainder)
    ELSE [temp |-> temp, shift |-> shift]

\* subtract_loop with the test written remainder > shifted_divisor
RECURSIVE subtract_loop_strict(_, _, _, _)
subtract_loop_strict(i, rhs, remainder, quotient) ==
    IF i < 0 THEN [quotient |-> quotient, remainder |-> remainder]
    ELSE LET shifted_divisor == uint128_shl(rhs, i)
         IN  IF uint128_lt(shifted_divisor, remainder)
             THEN subtract_loop_strict(i - 1, rhs,
                      uint128_minus(remainder, shifted_divisor),
                      uint128_or(quotient, uint128_shl(uint128_ctor_int(1), i)))
             ELSE subtract_loop_strict(i - 1, rhs, remainder, quotient)

\* The for loop of divide_portable, from index i down to 0.
RECURSIVE subtract_loop(_, _, _, _)
subtract_loop(i, rhs, remainder, quotient) ==
    IF i < 0 THEN [quotient |-> quotient, remainder |-> remainder]
    ELSE LET shifted_divisor == uint128_shl(rhs, i)
         IN  IF uint128_ge(remainder, shifted_divisor)
             THEN subtract_loop(i - 1, rhs,
                      uint128_minus(remainder, shifted_divisor),
                      uint128_or(quotient, uint128_shl(uint128_ctor_int(1), i)))
             ELSE subtract_loop(i - 1, rhs, remainder, quotient)

\* The int counters shift and i of divide_portable are followed up to this many
\* increments.
LoopCap == 2 * Bits

\* shift_scan_states with the test written temp < remainder
RECURSIVE shift_scan_states_strict(_, _, _)
shift_scan_states_strict(temp, shift, remainder) ==
    IF uint128_lt(temp, remainder) /\ temp.hi < SignBit64 /\ shift < LoopCap
    THEN <<[temp |-> temp, shift |-> shift]>>
         \o shift_scan_states_strict(uint128_shl(temp, 1), shift + 1, remainder)
    ELSE <<[temp |-> temp, shift |-> shift]>>

\* shift_scan_states with the test of the top bit of temp left out
RECURSIVE shift_scan_states_no_top_bit_test(_, _, _)
shift_scan_states_no_top_bit_test(temp, shift, remainder) ==
    IF uint128_le(temp, remainder) /\ shift < LoopCap
    THEN <<[temp |-> temp, shift |-> shift]>>
         \o shift_scan_states_no_top_bit_test(uint128_shl(temp, 1), shift + 1, remainder)
    ELSE <<[temp |-> temp, shift |-> shift]>>

\* The while loop of divide_portable: temp and shift each time its condition
\* is evaluated, the evaluation that leaves the loop last.
RECURSIVE shift_scan_states(_, _, _)
shift_scan_states(temp, shift, remainder) ==
    IF uint128_le(temp, remainder) /\ temp.hi < SignBit64 /\ shift < LoopCap
    THEN <<[temp |-> temp, shift |-> shift]>>
         \o shift_scan_states(uint128_shl(temp, 1), shift + 1, remainder)
    ELSE <<[temp |-> temp, shift |-> shift]>>

\* subtract_loop_states with the test written remainder > shifted_divisor
RECURSIVE subtract_loop_states_strict(_, _, _, _)
subtract_loop_states_strict(i, rhs, remainder, quotient) ==
    IF i < 0 THEN <<[i |-> i, remainder |-> remainder, quotient |-> quotient]>>
    ELSE LET shifted_divisor == uint128_shl(rhs, i)
         IN  <<[i |-> i, remainder |-> remainder, quotient |-> quotient]>>
             \o (IF uint128_gt(remainder, shifted_divisor)
                 THEN subtract_loop_states_strict(i - 1, rhs,
                          uint128_minus(remainder, shifted_divisor),
                          uint128_or(quotient, uint128_shl(uint128_ctor_int(1), i)))
                 ELSE subtract_loop_states_strict(i - 1, rhs, remainder, quotient))

\* The for loop of divide_portable: i, remainder and quotient each time its
\* condition i >= 0 is evaluated, the evaluation that leaves the loop last.
RECURSIVE subtract_loop_states(_, _, _, _)
subtract_loop_states(i, rhs, remainder, quotient) ==
    IF i < 0 THEN <<[i |-> i, remainder |-> remainder, quotient |-> quotient]>>
    ELSE LET shifted_divisor == uint128_shl(rhs, i)
         IN  <<[i |-> i, remainder |-> remainder, quotient |-> quotient]>>
             \o (IF uint128_ge(remainder, shifted_divisor)
                 THEN subtract_loop_states(i - 1, rhs,
                          uint128_minus(remainder, shifted_divisor),
                          uint128_or(quotient, uint128_shl(uint128_ctor_int(1), i)))
                 ELSE subtract_loop_states(i - 1, rhs, remainder, quotient))

\* The locals of one call of divide_portable as its two loops ran; neither loop
\* runs when the function returns early.
divide_portable_loops(lhs, rhs) ==
    IF uint128_eq(rhs, uint128_ctor_int(0)) \/ uint128_lt(lhs, rhs)
    THEN [called |-> TRUE, scan |-> <<>>, steps |-> <<>>]
    ELSE LET scan == shift_scan_states(rhs, 0, lhs)
         IN  [called |-> TRUE,
              scan |-> scan,
              steps |-> subtract_loop_states(scan[Len(scan)].shift, rhs, lhs,
                                             uint128_ctor_int(0))]

divide_portable(lhs, rhs) ==
    IF uint128_eq(rhs, uint128_ctor_int(0)) \/ uint128_lt(lhs, rhs)
    THEN uint128_ctor_int(0)
    ELSE LET scan == shift_scan(rhs, 0, lhs)
         IN  subtract_loop(scan.shift, rhs, lhs, uint128_ctor_int(0)).quotient

\* operator/(uint128, uint128), #else branch
uint128_div(lhs, rhs) == divide_portable(lhs, rhs)

\* uint128_mod subtracting from the divisor instead of the dividend
uint128_mod_from_divisor(lhs, rhs) ==
    IF uint128_eq(rhs, uint128_ctor_int(0)) THEN uint128_ctor_int(0)
    ELSE uint128_minus(rhs, uint128_times(uint128_div(lhs, rhs), rhs))

\* uint128_mod without the test for a zero divisor
uint128_mod_unguarded(lhs, rhs) ==
    uint128_minus(lhs, uint128_times(uint128_div(lhs, rhs), rhs))

\* operator%(uint128, uint128), #else branch
uint128_mod(lhs, rhs) ==
    IF uint128_eq(rhs, uint128_ctor_int(0)) THEN uint128_ctor_int(0)
    ELSE uint128_minus(lhs, uint128_times(uint128_div(lhs, rhs), rhs))

(***************************************************************************)
(* Portable backend, int128: a record [hi, lo], hi an int64_t, lo a        *)
(* uint64_t.                                                               *)
(***************************************************************************)
int128_from_parts(high, low) == [hi |-> high, lo |-> low]

\* int128(int v), int128(long v), int128(long long v)
int128_ctor_int(v) == [hi |-> (IF v < 0 THEN 0 - 1 ELSE 0), lo |-> ToUint64(v)]

\* int128(unsigned int v), int128(unsigned long v), int128(unsigned long long v)
int128_ctor_u64(v) == [hi |-> 0, lo |-> v]

\* explicit uint128(int128 v)
uint128_ctor_int128(v) == [hi |-> ToUint64(v.hi), lo |-> v.lo]

\* explicit int128(uint128 v) with a range check that clamps the high limb
int128_ctor_uint128_clamped(v) ==
    [hi |-> (IF v.hi > Int64Max THEN Int64Max ELSE v.hi), lo |-> v.lo]

\* explicit int128(uint128 v)
int128_ctor_uint128(v) == [hi |-> ToInt64(v.hi), lo |-> v.lo]

int128_eq(lhs, rhs) == lhs.lo = rhs.lo /\ lhs.hi = rhs.hi

int128_ne(lhs, rhs) == ~int128_eq(lhs, rhs)

\* int128_lt with the high limbs compared as uint64_t
int128_lt_unsigned_high(lhs, rhs) ==
    IF lhs.hi = rhs.hi THEN lhs.lo < rhs.lo ELSE ToUint64(lhs.hi) < ToUint64(rhs.hi)

int128_lt(lhs, rhs) ==
    IF lhs.hi = rhs.hi THEN lhs.lo < rhs.lo ELSE lhs.hi < rhs.hi

int128_gt(lhs, rhs) == int128_lt(rhs, lhs)

int128_le(lhs, rhs) == ~int128_lt(rhs, lhs)

int128_ge(lhs, rhs) == ~int128_lt(lhs, rhs)

int128_plus(lhs, rhs) ==
    int128_ctor_uint128(
        uint128_plus(uint128_ctor_int128(lhs), uint128_ctor_int128(rhs)))

int128_minus(lhs, rhs) ==
    int128_ctor_uint128(
        uint128_minus(uint128_ctor_int128(lhs), uint128_ctor_int128(rhs)))

int128_times(lhs, rhs) ==
    int128_ctor_uint128(
        uint128_times(uint128_ctor_int128(lhs), uint128_ctor_int128(rhs)))

\* operator-(int128): the high limb is computed in int64_t, ~hi + (lo == 0 ? 1 : 0).
\* The sum leaves the range of int64_t exactly for hi = INT64_MIN, lo = 0.
int128_not(val) == int128_from_parts(NotInt64(val.hi), Not64(val.lo))

int128_neg_overflows(val) ==
    NotInt64(val.hi) + (IF val.lo = 0 THEN 1 ELSE 0) > Int64Max

\* The value operator-(int128) returns when the int64_t sum wraps.
int128_neg(val) ==
    int128_from_parts(
        ToInt64(U64(NotInt64(val.hi) + (IF val.lo = 0 THEN 1 ELSE 0))),
        U64(Not64(val.lo) + 1))

\* |v| as operator/ and operator% take it: v.high() < 0 ? -uint128(v) : uint128(v)
int128_abs(v) ==
    IF v.hi < 0 THEN uint128_neg(uint128_ctor_int128(v)) ELSE uint128_ctor_int128(v)

\* operator/(int128, int128), #else branch: the unsigned quotient and its sign
int128_div_result(lhs, rhs) == uint128_div(int128_abs(lhs), int128_abs(rhs))

int128_div_negative(lhs, rhs) == (lhs.hi < 0) # (rhs.hi < 0)

int128_div(lhs, rhs) ==
    IF int128_div_negative(lhs, rhs)
    THEN int128_neg(int128_ctor_uint128(int128_div_result(lhs, rhs)))
    ELSE int128_ctor_uint128(int128_div_result(lhs, rhs))

\* operator/ evaluates -int128(result) with result = 2^127
int128_div_ub(lhs, rhs) ==
    /\ int128_div_negative(lhs, rhs)
    /\ int128_neg_overflows(int128_ctor_uint128(int128_div_result(lhs, rhs)))

\* operator%(int128, int128), #else branch
int128_mod_result(lhs, rhs) == uint128_mod(int128_abs(lhs), int128_abs(rhs))

int128_mod(lhs, rhs) ==
    IF lhs.hi < 0
    THEN int128_neg(int128_ctor_uint128(int128_mod_result(lhs, rhs)))
    ELSE int128_ctor_uint128(int128_mod_result(lhs, rhs))

int128_mod_ub(lhs, rhs) ==
    /\ lhs.hi < 0
    /\ int128_neg_overflows(int128_ctor_uint128(int128_mod_result(lhs, rhs)))

\* &, | and ^ on the int64_t high limbs act on their two's-complement patterns.
int128_and(lhs, rhs) ==
    int128_from_parts(ToInt64(BitAnd(ToUint64(lhs.hi), ToUint64(rhs.hi))),
                      BitAnd(lhs.lo, rhs.lo))

int128_or(lhs, rhs) ==
    int128_from_parts(ToInt64(BitOr(ToUint64(lhs.hi), ToUint64(rhs.hi))),
                      BitOr(lhs.lo, rhs.lo))

int128_xor(lhs, rhs) ==
    int128_from_parts(ToInt64(BitXor(ToUint64(lhs.hi), ToUint64(rhs.hi))),
                      BitXor(lhs.lo, rhs.lo))

int128_shl(lhs, amount) ==
    IF amount = 0 THEN lhs
    ELSE IF amount >= Bits THEN int128_ctor_int(0)
    ELSE IF amount >= LimbBits
         THEN int128_from_parts(ToInt64(Shl64(lhs.lo, amount - LimbBits)), 0)
    ELSE int128_from_parts(
             ToInt64(BitOr(ToUint64(Sal64(lhs.hi, amount)),
                           Shr64(lhs.lo, LimbBits - amount))),
             Shl64(lhs.lo, amount))

\* int128_shr with a zero high limb for amounts of 64 and more
int128_shr_zero_fill(lhs, amount) ==
    IF amount = 0 THEN lhs
    ELSE IF amount >= Bits
         THEN (IF lhs.hi < 0 THEN int128_ctor_int(0 - 1) ELSE int128_ctor_int(0))
    ELSE IF amount >= LimbBits
         THEN int128_from_parts(0, ToUint64(Sar64(lhs.hi, amount - LimbBits)))
    ELSE int128_from_parts(
             Sar64(lhs.hi, amount),
             BitOr(Shr64(lhs.lo, amount),
                   Shl64(ToUint64(lhs.hi), LimbBits - amount)))

int128_shr(lhs, amount) ==
    IF amount = 0 THEN lhs
    ELSE IF amount >= Bits
         THEN (IF lhs.hi < 0 THEN int128_ctor_int(0 - 1) ELSE int128_ctor_int(0))
    ELSE IF amount >= LimbBits
         THEN int128_from_parts(IF lhs.hi < 0 THEN 0 - 1 ELSE 0,
                                ToUint64(Sar64(lhs.hi, amount - LimbBits)))
    ELSE int128_from_parts(
             Sar64(lhs.hi, amount),
             BitOr(Shr64(lhs.lo, amount),
                   Shl64(ToUint64(lhs.hi), LimbBits - amount)))

(***************************************************************************)
(* Native backend: data_ is one built-in integer, unsigned __int128 for    *)
(* uint128 and __int128 for int128.                                        *)
(***************************************************************************)
\* unsigned __int128 arithmetic wraps modulo 2^128.
U128(x) == x % WordMod
\* static_cast<__int128>(unsigned __int128): modular (C++20)
ToInt128(u) == IF u >= Pow2(Bits - 1) THEN u - WordMod ELSE u
\* static_cast<unsigned __int128>(__int128)
ToUint128(s) == s % WordMod

uint128_native_from_parts(high, low) == BitOr(U128(high * LimbMod), low)

uint128_native_low(data) == data % LimbMod

uint128_native_high(data) == (data \div LimbMod) % LimbMod

int128_native_from_parts(high, low) ==
    ToInt128(BitOr(ToUint128(high * LimbMod), low))

int128_native_low(data) == data % LimbMod

\* int128::high() returning the shifted value zero-extended
int128_native_high_unsigned(data) == (data \div LimbMod) % LimbMod

int128_native_high(data) == ToInt64((data \div LimbMod) % LimbMod)

\* data_(v): the built-in conversion of a 64-bit integer to the 128-bit type
uint128_native_ctor_int(v) == ToUint128(v)

uint128_native_ctor_u64(v) == v

int128_native_ctor_int(v) == v

int128_native_ctor_u64(v) == v

\* static_cast<unsigned __int128>(data_) of an int128
uint128_native_ctor_int128(data) == ToUint128(data)

\* static_cast<__int128>(data_) of a uint128
int128_native_ctor_uint128(data) == ToInt128(data)

uint128_native_plus(lhs, rhs) == U128(lhs + rhs)

uint128_native_minus(lhs, rhs) == U128(lhs - rhs)

uint128_native_times(lhs, rhs) == U128(lhs * rhs)

uint128_native_div(lhs, rhs) == IF rhs = 0 THEN 0 ELSE lhs \div rhs

uint128_native_mod(lhs, rhs) == IF rhs = 0 THEN 0 ELSE lhs % rhs

uint128_native_not(data) == U128((WordMod - 1) - data)

\* -data_ on unsigned __int128 is reduced modulo 2^128
uint128_native_neg(data) == U128(0 - data)

int128_native_not(data) == (0 - data) - 1

\* -data_ on __int128, as the exact integer
int128_native_neg(data) == 0 - data

\* operator== and operator< compare data_; the other four are built on them
\* by code the two backends share.
uint128_native_eq(lhs, rhs) == lhs = rhs

uint128_native_lt(lhs, rhs) == lhs < rhs

uint128_native_ne(lhs, rhs) == ~uint128_native_eq(lhs, rhs)

uint128_native_gt(lhs, rhs) == uint128_native_lt(rhs, lhs)

uint128_native_le(lhs, rhs) == ~uint128_native_lt(rhs, lhs)

uint128_native_ge(lhs, rhs) == ~uint128_native_lt(lhs, rhs)

int128_native_eq(lhs, rhs) == lhs = rhs

int128_native_lt(lhs, rhs) == lhs < rhs

int128_native_ne(lhs, rhs) == ~int128_native_eq(lhs, rhs)

int128_native_gt(lhs, rhs) == int128_native_lt(rhs, lhs)

int128_native_le(lhs, rhs) == ~int128_native_lt(rhs, lhs)

int128_native_ge(lhs, rhs) == ~int128_native_lt(lhs, rhs)

\* data_ << amount, defined for 0 <= amount < 128
uint128_native_shl(lhs, amount) == U128(lhs * Pow2(amount))

\* data_ >> amount, defined for 0 <= amount < 128
uint128_native_shr(lhs, amount) == lhs \div Pow2(amount)

\* __int128 +, -, *: the exact result, undefined when it is not representable
InInt128(x) == Int128Min <= x /\ x <= Int128Max

int128_native_plus(lhs, rhs) == lhs + rhs

int128_native_minus(lhs, rhs) == lhs - rhs

int128_native_times(lhs, rhs) == lhs * rhs

\* Built-in signed division truncates toward zero.
Abs(x) == IF x < 0 THEN 0 - x ELSE x

TruncDiv(x, y) ==
    IF (x < 0) # (y < 0) THEN 0 - (Abs(x) \div Abs(y)) ELSE Abs(x) \div Abs(y)

TruncRem(x, y) == x - TruncDiv(x, y) * y

int128_native_div(lhs, rhs) == IF rhs = 0 THEN 0 ELSE TruncDiv(lhs, rhs)

int128_native_mod(lhs, rhs) == IF rhs = 0 THEN 0 ELSE TruncRem(lhs, rhs)

\* __int128 / and %: undefined when the quotient is not representable
int128_native_div_ub(lhs, rhs) == rhs # 0 /\ ~InInt128(TruncDiv(lhs, rhs))

\* data_ << amount on __int128, 0 <= amount < 128: modular (C++20)
int128_native_shl(lhs, amount) == ToInt128(U128(ToUint128(lhs) * Pow2(amount)))

\* data_ >> amount on __int128, 0 <= amount < 128: arithmetic
int128_native_shr(lhs, amount) == lhs \div Pow2(amount)

uint128_native_and(lhs, rhs) == BitAnd(lhs, rhs)

uint128_native_xor(lhs, rhs) == BitXor(lhs, rhs)

int128_native_and(lhs, rhs) == ToInt128(BitAnd(ToUint128(lhs), ToUint128(rhs)))

int128_native_or(lhs, rhs) == ToInt128(BitOr(ToUint128(lhs), ToUint128(rhs)))

int128_native_xor(lhs, rhs) == ToInt128(BitXor(ToUint128(lhs), ToUint128(rhs)))

uint128_native_or(lhs, rhs) == BitOr(lhs, rhs)

\* detail::divide_portable as the native build compiles it: the same loops on
\* the built-in operators. Its shifts are by 1 and by i <= shift <= 127.
RECURSIVE shift_scan_native(_, _, _)
shift_scan_native(temp, shift, remainder) ==
    IF uint128_native_le(temp, remainder) /\ uint128_native_high(temp) < SignBit64
    THEN shift_scan_native(uint128_native_shl(temp, 1), shift + 1, remainder)
    ELSE [temp |-> temp, shift |-> shift]

RECURSIVE subtract_loop_native(_, _, _, _)
subtract_loop_native(i, rhs, remainder, quotient) ==
    IF i < 0 THEN [quotient |-> quotient, remainder |-> remainder]
    ELSE LET shifted_divisor == uint128_native_shl(rhs, i)
         IN  IF uint128_native_ge(remainder, shifted_divisor)
             THEN subtract_loop_native(i - 1, rhs,
                      uint128_native_minus(remainder, shifted_divisor),
                      uint128_native_or(quotient,
                          uint128_native_shl(uint128_native_ctor_int(1), i)))
             ELSE subtract_loop_native(i - 1, rhs, remainder, quotient)

divide_portable_native(lhs, rhs) ==
    IF uint128_native_eq(rhs, uint128_native_ctor_int(0)) \/ uint128_native_lt(lhs, rhs)
    THEN uint128_native_ctor_int(0)
    ELSE LET scan == shift_scan_native(rhs, 0, lhs)
         IN  subtract_loop_native(scan.shift, rhs, lhs, uint128_native_ctor_int(0)).quotient

(***************************************************************************)
(* What a caller observes of one operator call: the limbs high() and low() *)
(* of the returned value, or a trap.                                       *)
(***************************************************************************)
Returned(h, l) == [hi |-> h, lo |-> l, trap |-> FALSE]

Trap == [hi |-> 0, lo |-> 0, trap |-> TRUE]

\* high() and low() of a portable value, of a native uint128, of a native int128
ObservePortable(v) == Returned(v.hi, v.lo)

ObserveNativeU(data) == Returned(uint128_native_high(data), uint128_native_low(data))

ObserveNativeS(data) == Returned(int128_native_high(data), int128_native_low(data))

\* Signed overflow of a built-in type: the build wraps, or traps.
SignedOverflow(wrapped) == {wrapped, Trap}

\* A built-in shift by amount >= width: the build masks the amount, saturates, or traps.
OversizedShift(masked, saturated) == {masked, saturated, Trap}

\* The outcomes of the int128 operators of the portable backend.
PortableSDiv(lhs, rhs) ==
    IF int128_div_ub(lhs, rhs)
    THEN SignedOverflow(ObservePortable(int128_div(lhs, rhs)))
    ELSE {ObservePortable(int128_div(lhs, rhs))}

PortableSMod(lhs, rhs) ==
    IF int128_mod_ub(lhs, rhs)
    THEN SignedOverflow(ObservePortable(int128_mod(lhs, rhs)))
    ELSE {ObservePortable(int128_mod(lhs, rhs))}

PortableSNeg(val) ==
    IF int128_neg_overflows(val)
    THEN SignedOverflow(ObservePortable(int128_neg(val)))
    ELSE {ObservePortable(int128_neg(val))}

\* The outcomes of the built-in __int128 operators of the native backend.
NativeSArith(exact) ==
    IF InInt128(exact)
    THEN {ObserveNativeS(exact)}
    ELSE SignedOverflow(ObserveNativeS(ToInt128(ToUint128(exact))))

NativeSDiv(lhs, rhs) ==
    IF int128_native_div_ub(lhs, rhs)
    THEN SignedOverflow(ObserveNativeS(ToInt128(ToUint128(TruncDiv(lhs, rhs)))))
    ELSE {ObserveNativeS(int128_native_div(lhs, rhs))}

NativeSMod(lhs, rhs) ==
    IF int128_native_div_ub(lhs, rhs)
    THEN SignedOverflow(ObserveNativeS(0))
    ELSE {ObserveNativeS(int128_native_mod(lhs, rhs))}

NativeUShl(lhs, amount) ==
    IF amount < Bits
    THEN {ObserveNativeU(uint128_native_shl(lhs, amount))}
    ELSE OversizedShift(ObserveNativeU(uint128_native_shl(lhs, amount % Bits)),
                        ObserveNativeU(0))

NativeUShr(lhs, amount) ==
    IF amount < Bits
    THEN {ObserveNativeU(uint128_native_shr(lhs, amount))}
    ELSE OversizedShift(ObserveNativeU(uint128_native_shr(lhs, amount % Bits)),
                        ObserveNativeU(0))

NativeSShl(lhs, amount) ==
    IF amount < Bits
    THEN {ObserveNativeS(int128_native_shl(lhs, amount))}
    ELSE OversizedShift(ObserveNativeS(int128_native_shl(lhs, amount % Bits)),
                        ObserveNativeS(0))

NativeSShr(lhs, amount) ==
    IF amount < Bits
    THEN {ObserveNativeS(int128_native_shr(lhs, amount))}
    ELSE OversizedShift(ObserveNativeS(int128_native_shr(lhs, amount % Bits)),
                        ObserveNativeS(IF lhs < 0 THEN 0 - 1 ELSE 0))

(***************************************************************************)
(* Stream output. Characters are their codes. The code is shared by the    *)
(* two backends; each runs it on its own operators.                        *)
(***************************************************************************)
\* What a formatter call did: the characters put on the stream in order,
\* whether it wrote past the end of its buffer, whether it trapped.
Written(chars, overrun, trap) == [chars |-> chars, overrun |-> overrun, trap |-> trap]

NotWritten == Written(<<>>, FALSE, FALSE)

Char0 == 48

CharMinus == 45

\* static_cast<char>(x) where char is a signed 8-bit type
ToChar(x) == IF x % 256 >= 128 THEN (x % 256) - 256 ELSE x % 256

RECURSIVE DecimalDigits(_)
DecimalDigits(x) == IF x < 10 THEN 1 ELSE 1 + DecimalDigits(x \div 10)

\* char buffer[40]: the 39 digits of 2^128 - 1 and one more
BufferSize == DecimalDigits(WordMod - 1) + 1

\* while (pos > 0) os.put(buffer[--pos]);
put_reversed(buffer) == [k \in 1 .. Len(buffer) |-> buffer[Len(buffer) + 1 - k]]

\* uint128_digit_loop with the remainder taken as v - quotient
RECURSIVE uint128_digit_loop_unscaled(_, _)
uint128_digit_loop_unscaled(v, buffer) ==
    IF ~uint128_ne(v, uint128_ctor_int(0))
    THEN [buffer |-> buffer, overrun |-> FALSE]
    ELSE IF Len(buffer) >= BufferSize
    THEN [buffer |-> buffer, overrun |-> TRUE]
    ELSE LET quotient == uint128_div(v, uint128_ctor_int(10))
             remainder == uint128_minus(v, quotient)
         IN  uint128_digit_loop_unscaled(quotient,
                 Append(buffer, ToChar(Char0 + ToChar(remainder.lo))))

\* while (v != 0) { ... buffer[pos++] = ...; v = quotient; }  pos is Len(buffer);
\* a write at pos >= 40 is outside the buffer.
RECURSIVE uint128_digit_loop(_, _)
uint128_digit_loop(v, buffer) ==
    IF ~uint128_ne(v, uint128_ctor_int(0))
    THEN [buffer |-> buffer, overrun |-> FALSE]
    ELSE IF Len(buffer) >= BufferSize
    THEN [buffer |-> buffer, overrun |-> TRUE]
    ELSE LET quotient == uint128_div(v, uint128_ctor_int(10))
             remainder == uint128_minus(v, uint128_times(quotient, uint128_ctor_int(10)))
         IN  uint128_digit_loop(quotient, Append(buffer, ToChar(Char0 + ToChar(remainder.lo))))

\* operator<<(std::ostream&, uint128), portable backend
uint128_put(v) ==
    IF uint128_eq(v, uint128_ctor_int(0))
    THEN Written(<<Char0>>, FALSE, FALSE)
    ELSE LET r == uint128_digit_loop(v, <<>>)
         IN  Written(put_reversed(r.buffer), r.overrun, FALSE)

RECURSIVE uint128_native_digit_loop(_, _)
uint128_native_digit_loop(v, buffer) ==
    IF ~uint128_native_ne(v, uint128_native_ctor_int(0))
    THEN [buffer |-> buffer, overrun |-> FALSE]
    ELSE IF Len(buffer) >= BufferSize
    THEN [buffer |-> buffer, overrun |-> TRUE]
    ELSE LET quotient == uint128_native_div(v, uint128_native_ctor_int(10))
             remainder == uint128_native_minus(v,
                              uint128_native_times(quotient, uint128_native_ctor_int(10)))
         IN  uint128_native_digit_loop(quotient,
                 Append(buffer, ToChar(Char0 + ToChar(uint128_native_low(remainder)))))

\* operator<<(std::ostream&, uint128), native backend
uint128_native_put(v) ==
    IF uint128_native_eq(v, uint128_native_ctor_int(0))
    THEN Written(<<Char0>>, FALSE, FALSE)
    ELSE LET r == uint128_native_digit_loop(v, <<>>)
         IN  Written(put_reversed(r.buffer), r.overrun, FALSE)

\* os.put('-') followed by what the uint128 formatter writes
after_minus(w) == Written(<<CharMinus>> \o w.chars, w.overrun, w.trap)

\* The '-' is on the stream when v = -v traps.
TrappedAfterMinus == Written(<<CharMinus>>, FALSE, TRUE)

\* operator<<(std::ostream&, int128), portable backend: v = -v overflows
\* int64_t for the minimum, so the build wraps or traps.
int128_put(v) ==
    IF v.hi < 0
    THEN IF int128_neg_overflows(v)
         THEN {after_minus(uint128_put(uint128_ctor_int128(int128_neg(v)))),
               TrappedAfterMinus}
         ELSE {after_minus(uint128_put(uint128_ctor_int128(int128_neg(v))))}
    ELSE {uint128_put(uint128_ctor_int128(v))}

\* operator<<(std::ostream&, int128), native backend: -data_ overflows for the
\* minimum, so the build wraps or traps.
int128_native_put(v) ==
    IF int128_native_high(v) < 0
    THEN IF InInt128(int128_native_neg(v))
         THEN {after_minus(uint128_native_put(
                   uint128_native_ctor_int128(int128_native_neg(v))))}
         ELSE {after_minus(uint128_native_put(
                   uint128_native_ctor_int128(ToInt128(ToUint128(int128_native_neg(v)))))),
               TrappedAfterMinus}
    ELSE {uint128_native_put(uint128_native_ctor_int128(v))}

(***************************************************************************)
(* std::numeric_limits: min() and max() of each type on each backend.      *)
(***************************************************************************)
uint128_limits_min == uint128_ctor_int(0)

uint128_limits_max == uint128_from_parts(LimbMax, LimbMax)

int128_limits_min == int128_from_parts(Int64Min, 0)

int128_limits_max == int128_from_parts(Int64Max, LimbMax)

uint128_native_limits_min == uint128_native_ctor_int(0)

uint128_native_limits_max == uint128_native_from_parts(LimbMax, LimbMax)

int128_native_limits_min == int128_native_from_parts(Int64Min, 0)

int128_native_limits_max == int128_native_from_parts(Int64Max, LimbMax)

(***************************************************************************)
(* Hashing. std::hash<uint64_t> is the standard library's: the identity in *)
(* libstdc++ and libc++, a mixing function elsewhere; size_t is 64 bits.   *)
(***************************************************************************)
StdHashes == {"identity", "mixing"}

std_hash(impl, x) ==
    IF impl = "identity" THEN x ELSE U64(x * (SignBit64 + HalfMod + 1) + HalfMask)

\* std::hash<arc::uint128>::operator(), given what low() and high() return
uint128_hash(impl, high, low) ==
    BitXor(std_hash(impl, low), Shl64(std_hash(impl, high), 1))

\* std::hash<arc::int128>::operator(), given what low() and high() return
int128_hash(impl, high, low) ==
    BitXor(std_hash(impl, low), Shl64(std_hash(impl, ToUint64(high)), 1))

(***************************************************************************)
(* State: the operands a and b (limb patterns handed to from_parts), the   *)
(* shift amount n, the operator applied and what each backend returned:    *)
(* a value in portable and native, the six comparison results in flags,    *)
(* the characters written to the stream in os, and the locals of           *)
(* divide_portable as its loops ran in loop. A member operator works on    *)
(* a receiver whose value is a before the call and self after it.          *)
(***************************************************************************)
VARIABLES a, b, n, op, portable, native, flags, os, loop, self

vars == <<a, b, n, op, portable, native, flags, os, loop, self>>

\* divide_portable not called: no loop has run.
NotDivided == [called |-> FALSE, scan |-> <<>>, steps |-> <<>>]

\* What ==, !=, <, >, <= and >= return for one pair of operands.
Compared(eq, ne, lt, gt, le, ge) ==
    [eq |-> eq, ne |-> ne, lt |-> lt, gt |-> gt, le |-> le, ge |-> ge]

NotCompared == Compared(FALSE, FALSE, FALSE, FALSE, FALSE, FALSE)

\* Limb patterns: each half of the limb is within 1 of 0 or of the all-ones half.
EdgeHalf(h) == h <= 1 \/ h >= HalfMask - 1

Limbs == {x \in 0 .. LimbMax : EdgeHalf(x % HalfMod) /\ EdgeHalf(x \div HalfMod)}

Values == [hi : Limbs, lo : Limbs]

ShiftAmounts == 0 .. (Bits + MaxOverShift)

\* The operand v as each backend and each type constructs it with from_parts.
PU(v) == uint128_from_parts(v.hi, v.lo)

PS(v) == int128_from_parts(ToInt64(v.hi), v.lo)

NU(v) == uint128_native_from_parts(v.hi, v.lo)

NS(v) == int128_native_from_parts(ToInt64(v.hi), v.lo)

Init ==
    /\ a \in Values
    /\ b = [hi |-> 0, lo |-> 0]
    /\ n = 0
    /\ op = "none"
    /\ portable = Returned(0, 0)
    /\ native = Returned(0, 0)
    /\ flags = [portable |-> NotCompared, native |-> NotCompared]
    /\ os = [portable |-> NotWritten, native |-> NotWritten]
    /\ loop = NotDivided
    /\ self = [portable |-> Returned(a.hi, a.lo), native |-> Returned(a.hi, a.lo)]

\* One operator call: o names it, y is the right operand, m the shift amount.
Call(o, y, m, P, N) ==
    /\ op' = o
    /\ b' = y
    /\ n' = m
    /\ portable' \in P
    /\ native' \in N
    /\ UNCHANGED <<a, flags, os, loop, self>>

UAdd ==
    /\ op = "none"
    /\ \E y \in Values :
        Call("uadd", y, 0, {ObservePortable(uint128_plus(PU(a), PU(y)))},
             {ObserveNativeU(uint128_native_plus(NU(a), NU(y)))})

USub ==
    /\ op = "none"
    /\ \E y \in Values :
        Call("usub", y, 0, {ObservePortable(uint128_minus(PU(a), PU(y)))},
             {ObserveNativeU(uint128_native_minus(NU(a), NU(y)))})

UMul ==
    /\ op = "none"
    /\ \E y \in Values :
        Call("umul", y, 0, {ObservePortable(uint128_times(PU(a), PU(y)))},
             {ObserveNativeU(uint128_native_times(NU(a), NU(y)))})

UDiv ==
    /\ op = "none"
    /\ \E y \in Values :
        Call("udiv", y, 0, {ObservePortable(uint128_div(PU(a), PU(y)))},
             {ObserveNativeU(uint128_native_div(NU(a), NU(y)))})

UMod ==
    /\ op = "none"
    /\ \E y \in Values :
        Call("umod", y, 0, {ObservePortable(uint128_mod(PU(a), PU(y)))},
             {ObserveNativeU(uint128_native_mod(NU(a), NU(y)))})

SAdd ==
    /\ op = "none"
    /\ \E y \in Values :
        Call("sadd", y, 0, {ObservePortable(int128_plus(PS(a), PS(y)))},
             NativeSArith(int128_native_plus(NS(a), NS(y))))

SSub ==
    /\ op = "none"
    /\ \E y \in Values :
        Call("ssub", y, 0, {ObservePortable(int128_minus(PS(a), PS(y)))},
             NativeSArith(int128_native_minus(NS(a), NS(y))))

SMul ==
    /\ op = "none"
    /\ \E y \in Values :
        Call("smul", y, 0, {ObservePortable(int128_times(PS(a), PS(y)))},
             NativeSArith(int128_native_times(NS(a), NS(y))))

SDiv ==
    /\ op = "none"
    /\ \E y \in Values :
        Call("sdiv", y, 0, PortableSDiv(PS(a), PS(y)), NativeSDiv(NS(a), NS(y)))

SMod ==
    /\ op = "none"
    /\ \E y \in Values :
        Call("smod", y, 0, PortableSMod(PS(a), PS(y)), NativeSMod(NS(a), NS(y)))

UShl ==
    /\ op = "none"
    /\ \E m \in ShiftAmounts :
        Call("ushl", b, m, {ObservePortable(uint128_shl(PU(a), m))}, NativeUShl(NU(a), m))

UShr ==
    /\ op = "none"
    /\ \E m \in ShiftAmounts :
        Call("ushr", b, m, {ObservePortable(uint128_shr(PU(a), m))}, NativeUShr(NU(a), m))

SShl ==
    /\ op = "none"
    /\ \E m \in ShiftAmounts :
        Call("sshl", b, m, {ObservePortable(int128_shl(PS(a), m))}, NativeSShl(NS(a), m))

SShr ==
    /\ op = "none"
    /\ \E m \in ShiftAmounts :
        Call("sshr", b, m, {ObservePortable(int128_shr(PS(a), m))}, NativeSShr(NS(a), m))

UNeg ==
    /\ op = "none"
    /\ Call("uneg", b, 0, {ObservePortable(uint128_neg(PU(a)))},
            {ObserveNativeU(uint128_native_neg(NU(a)))})

SNeg ==
    /\ op = "none"
    /\ Call("sneg", b, 0, PortableSNeg(PS(a)), NativeSArith(int128_native_neg(NS(a))))

\* from_parts(h, l) read back with high() and low(), and a value v rebuilt
\* from its own high() and low() and compared with v. The limbs a.hi, a.lo
\* are h and l, and they number the values v of the type.
UFromParts ==
    /\ op = "none"
    /\ op' = "uparts"
    /\ portable' = ObservePortable(uint128_from_parts(a.hi, a.lo))
    /\ native' = ObserveNativeU(uint128_native_from_parts(a.hi, a.lo))
    /\ LET v == [hi |-> a.hi, lo |-> a.lo]
           d == a.hi * LimbMod + a.lo
           w == uint128_from_parts(v.hi, v.lo)
           e == uint128_native_from_parts(uint128_native_high(d), uint128_native_low(d))
       IN flags' =
            [portable |-> Compared(uint128_eq(w, v), uint128_ne(w, v), uint128_lt(w, v),
                                   uint128_gt(w, v), uint128_le(w, v), uint128_ge(w, v)),
             native |-> Compared(uint128_native_eq(e, d), uint128_native_ne(e, d),
                                 uint128_native_lt(e, d), uint128_native_gt(e, d),
                                 uint128_native_le(e, d), uint128_native_ge(e, d))]
    /\ UNCHANGED <<a, b, n, os, loop, self>>

SFromParts ==
    /\ op = "none"
    /\ op' = "sparts"
    /\ portable' = ObservePortable(int128_from_parts(ToInt64(a.hi), a.lo))
    /\ native' = ObserveNativeS(int128_native_from_parts(ToInt64(a.hi), a.lo))
    /\ LET v == [hi |-> ToInt64(a.hi), lo |-> a.lo]
           d == ToInt64(a.hi) * LimbMod + a.lo
           w == int128_from_parts(v.hi, v.lo)
           e == int128_native_from_parts(int128_native_high(d), int128_native_low(d))
       IN flags' =
            [portable |-> Compared(int128_eq(w, v), int128_ne(w, v), int128_lt(w, v),
                                   int128_gt(w, v), int128_le(w, v), int128_ge(w, v)),
             native |-> Compared(int128_native_eq(e, d), int128_native_ne(e, d),
                                 int128_native_lt(e, d), int128_native_gt(e, d),
                                 int128_native_le(e, d), int128_native_ge(e, d))]
    /\ UNCHANGED <<a, b, n, os, loop, self>>

\* Construction from a 64-bit integer: the signed source is a.lo read as
\* int64_t, the unsigned source is a.lo.
UCtorSigned ==
    /\ op = "none"
    /\ Call("uctor_s", b, 0, {ObservePortable(uint128_ctor_int(ToInt64(a.lo)))},
            {ObserveNativeU(uint128_native_ctor_int(ToInt64(a.lo)))})

UCtorUnsigned ==
    /\ op = "none"
    /\ Call("uctor_u", b, 0, {ObservePortable(uint128_ctor_u64(a.lo))},
            {ObserveNativeU(uint128_native_ctor_u64(a.lo))})

SCtorSigned ==
    /\ op = "none"
    /\ Call("sctor_s", b, 0, {ObservePortable(int128_ctor_int(ToInt64(a.lo)))},
            {ObserveNativeS(int128_native_ctor_int(ToInt64(a.lo)))})

SCtorUnsigned ==
    /\ op = "none"
    /\ Call("sctor_u", b, 0, {ObservePortable(int128_ctor_u64(a.lo))},
            {ObserveNativeS(int128_native_ctor_u64(a.lo))})

\* uint128(i) for the int128 i that a numbers, read with high() and low(), and
\* int128(uint128(i)) compared with i.
UFromInt128 ==
    /\ op = "none"
    /\ op' = "u_from_s"
    /\ portable' = ObservePortable(uint128_ctor_int128(PS(a)))
    /\ native' = ObserveNativeU(uint128_native_ctor_int128(NS(a)))
    /\ LET v == PS(a)
           d == NS(a)
           w == int128_ctor_uint128(uint128_ctor_int128(v))
           e == int128_native_ctor_uint128(uint128_native_ctor_int128(d))
       IN flags' =
            [portable |-> Compared(int128_eq(w, v), int128_ne(w, v), int128_lt(w, v),
                                   int128_gt(w, v), int128_le(w, v), int128_ge(w, v)),
             native |-> Compared(int128_native_eq(e, d), int128_native_ne(e, d),
                                 int128_native_lt(e, d), int128_native_gt(e, d),
                                 int128_native_le(e, d), int128_native_ge(e, d))]
    /\ UNCHANGED <<a, b, n, os, loop, self>>

\* int128(u) for the uint128 u that a numbers, read with high() and low(), and
\* uint128(int128(u)) compared with u.
SFromUint128 ==
    /\ op = "none"
    /\ op' = "s_from_u"
    /\ portable' = ObservePortable(int128_ctor_uint128(PU(a)))
    /\ native' = ObserveNativeS(int128_native_ctor_uint128(NU(a)))
    /\ LET v == PU(a)
           d == NU(a)
           w == uint128_ctor_int128(int128_ctor_uint128(v))
           e == uint128_native_ctor_int128(int128_native_ctor_uint128(d))
       IN flags' =
            [portable |-> Compared(uint128_eq(w, v), uint128_ne(w, v), uint128_lt(w, v),
                                   uint128_gt(w, v), uint128_le(w, v), uint128_ge(w, v)),
             native |-> Compared(uint128_native_eq(e, d), uint128_native_ne(e, d),
                                 uint128_native_lt(e, d), uint128_native_gt(e, d),
                                 uint128_native_le(e, d), uint128_native_ge(e, d))]
    /\ UNCHANGED <<a, b, n, os, loop, self>>

\* os << a, for a as a uint128 and as an int128.
Put(o, P, N) ==
    /\ op' = o
    /\ \E p \in P, q \in N : os' = [portable |-> p, native |-> q]
    /\ UNCHANGED <<a, b, n, portable, native, flags, loop, self>>

UPut ==
    /\ op = "none"
    /\ Put("uput", {uint128_put(PU(a))}, {uint128_native_put(NU(a))})

SPut ==
    /\ op = "none"
    /\ Put("sput", int128_put(PS(a)), int128_native_put(NS(a)))

\* The hashes of a and of a value y with the same low limb, compared as
\* size_t; portable and native hold the hash of a in their low limb.
Hashed(impl, P, Py, N, Ny, y) ==
    /\ op' = impl
    /\ b' = y
    /\ portable' = Returned(0, P)
    /\ native' = Returned(0, N)
    /\ flags' = [portable |-> Compared(P = Py, P # Py, P < Py, P > Py, P <= Py, P >= Py),
                 native |-> Compared(N = Ny, N # Ny, N < Ny, N > Ny, N <= Ny, N >= Ny)]
    /\ UNCHANGED <<a, n, os, loop, self>>

UHash ==
    /\ op = "none"
    /\ \E impl \in StdHashes, h \in Limbs :
        LET y == [hi |-> h, lo |-> a.lo]
        IN Hashed("uhash_" \o impl,
                  uint128_hash(impl, PU(a).hi, PU(a).lo),
                  uint128_hash(impl, PU(y).hi, PU(y).lo),
                  uint128_hash(impl, uint128_native_high(NU(a)), uint128_native_low(NU(a))),
                  uint128_hash(impl, uint128_native_high(NU(y)), uint128_native_low(NU(y))),
                  y)

SHash ==
    /\ op = "none"
    /\ \E impl \in StdHashes, h \in Limbs :
        LET y == [hi |-> h, lo |-> a.lo]
        IN Hashed("shash_" \o impl,
                  int128_hash(impl, PS(a).hi, PS(a).lo),
                  int128_hash(impl, PS(y).hi, PS(y).lo),
                  int128_hash(impl, int128_native_high(NS(a)), int128_native_low(NS(a))),
                  int128_hash(impl, int128_native_high(NS(y)), int128_native_low(NS(y))),
                  y)

\* The six comparisons of two uint128 (int128) values on each backend.
UCompared(l, r) ==
    Compared(uint128_eq(l, r), uint128_ne(l, r), uint128_lt(l, r),
             uint128_gt(l, r), uint128_le(l, r), uint128_ge(l, r))

SCompared(l, r) ==
    Compared(int128_eq(l, r), int128_ne(l, r), int128_lt(l, r),
             int128_gt(l, r), int128_le(l, r), int128_ge(l, r))

NUCompared(l, r) ==
    Compared(uint128_native_eq(l, r), uint128_native_ne(l, r), uint128_native_lt(l, r),
             uint128_native_gt(l, r), uint128_native_le(l, r), uint128_native_ge(l, r))

NSCompared(l, r) ==
    Compared(int128_native_eq(l, r), int128_native_ne(l, r), int128_native_lt(l, r),
             int128_native_gt(l, r), int128_native_le(l, r), int128_native_ge(l, r))

\* A limit read with high() and low(), and compared with the value a.
Limit(o, P, N, FP, FN) ==
    /\ op' = o
    /\ portable' = P
    /\ native' = N
    /\ flags' = [portable |-> FP, native |-> FN]
    /\ UNCHANGED <<a, b, n, os, loop, self>>

\* min() compared with a.
UMinLimit ==
    /\ op = "none"
    /\ Limit("umin", ObservePortable(uint128_limits_min),
             ObserveNativeU(uint128_native_limits_min),
             UCompared(uint128_limits_min, PU(a)),
             NUCompared(uint128_native_limits_min, NU(a)))

\* a compared with max().
UMaxLimit ==
    /\ op = "none"
    /\ Limit("umax", ObservePortable(uint128_limits_max),
             ObserveNativeU(uint128_native_limits_max),
             UCompared(PU(a), uint128_limits_max),
             NUCompared(NU(a), uint128_native_limits_max))

SMinLimit ==
    /\ op = "none"
    /\ Limit("smin", ObservePortable(int128_limits_min),
             ObserveNativeS(int128_native_limits_min),
             SCompared(int128_limits_min, PS(a)),
             NSCompared(int128_native_limits_min, NS(a)))

SMaxLimit ==
    /\ op = "none"
    /\ Limit("smax", ObservePortable(int128_limits_max),
             ObserveNativeS(int128_native_limits_max),
             SCompared(PS(a), int128_limits_max),
             NSCompared(NS(a), int128_native_limits_max))

\* max() + 1 == min(): the sum read with high() and low(), and the comparison.
UMaxSucc ==
    /\ op = "none"
    /\ LET p == uint128_plus(uint128_limits_max, uint128_ctor_int(1))
           q == uint128_native_plus(uint128_native_limits_max, uint128_native_ctor_int(1))
       IN Limit("umax_succ", ObservePortable(p), ObserveNativeU(q),
                UCompared(p, uint128_limits_min),
                NUCompared(q, uint128_native_limits_min))

\* On the native backend the sum overflows __int128: the build wraps or traps,
\* and after a trap nothing is compared.
SMaxSucc ==
    /\ op = "none"
    /\ LET p == int128_plus(int128_limits_max, int128_ctor_int(1))
           q == int128_native_plus(int128_native_limits_max, int128_native_ctor_int(1))
       IN \E r \in NativeSArith(q) :
            Limit("smax_succ", ObservePortable(p), r,
                  SCompared(p, int128_limits_min),
                  IF r.trap THEN NotCompared
                  ELSE NSCompared(int128_native_from_parts(r.hi, r.lo),
                                  int128_native_limits_min))

\* detail::divide_portable(a, y): the quotient it returns in each build, and
\* its loops as they run on the two-limb representation.
DividePortable ==
    /\ op = "none"
    /\ \E y \in Values :
        /\ op' = "divide"
        /\ b' = y
        /\ portable' = ObservePortable(divide_portable(PU(a), PU(y)))
        /\ native' = ObserveNativeU(divide_portable_native(NU(a), NU(y)))
        /\ loop' = divide_portable_loops(PU(a), PU(y))
        /\ UNCHANGED <<a, n, flags, os, self>>

\* The outcomes of the binary operator that a compound assignment applies:
\* *this = *this <op> other, or *this = *this <op> shift.
AssignOps == {"+=", "-=", "*=", "/=", "%=", "&=", "|=", "^="}

ShiftAssignOps == {"<<=", ">>="}

UBinaryPortable(o, l, r, m) ==
    CASE o = "+=" -> {ObservePortable(uint128_plus(l, r))}
      [] o = "-=" -> {ObservePortable(uint128_minus(l, r))}
      [] o = "*=" -> {ObservePortable(uint128_times(l, r))}
      [] o = "/=" -> {ObservePortable(uint128_div(l, r))}
      [] o = "%=" -> {ObservePortable(uint128_mod(l, r))}
      [] o = "&=" -> {ObservePortable(uint128_and(l, r))}
      [] o = "|=" -> {ObservePortable(uint128_or(l, r))}
      [] o = "^=" -> {ObservePortable(uint128_xor(l, r))}
      [] o = "<<=" -> {ObservePortable(uint128_shl(l, m))}
      [] o = ">>=" -> {ObservePortable(uint128_shr(l, m))}

UBinaryNative(o, l, r, m) ==
    CASE o = "+=" -> {ObserveNativeU(uint128_native_plus(l, r))}
      [] o = "-=" -> {ObserveNativeU(uint128_native_minus(l, r))}
      [] o = "*=" -> {ObserveNativeU(uint128_native_times(l, r))}
      [] o = "/=" -> {ObserveNativeU(uint128_native_div(l, r))}
      [] o = "%=" -> {ObserveNativeU(uint128_native_mod(l, r))}
      [] o = "&=" -> {ObserveNativeU(uint128_native_and(l, r))}
      [] o = "|=" -> {ObserveNativeU(uint128_native_or(l, r))}
      [] o = "^=" -> {ObserveNativeU(uint128_native_xor(l, r))}
      [] o = "<<=" -> NativeUShl(l, m)
      [] o = ">>=" -> NativeUShr(l, m)

SBinaryPortable(o, l, r, m) ==
    CASE o = "+=" -> {ObservePortable(int128_plus(l, r))}
      [] o = "-=" -> {ObservePortable(int128_minus(l, r))}
      [] o = "*=" -> {ObservePortable(int128_times(l, r))}
      [] o = "/=" -> PortableSDiv(l, r)
      [] o = "%=" -> PortableSMod(l, r)
      [] o = "&=" -> {ObservePortable(int128_and(l, r))}
      [] o = "|=" -> {ObservePortable(int128_or(l, r))}
      [] o = "^=" -> {ObservePortable(int128_xor(l, r))}
      [] o = "<<=" -> {ObservePortable(int128_shl(l, m))}
      [] o = ">>=" -> {ObservePortable(int128_shr(l, m))}

SBinaryNative(o, l, r, m) ==
    CASE o = "+=" -> NativeSArith(int128_native_plus(l, r))
      [] o = "-=" -> NativeSArith(int128_native_minus(l, r))
      [] o = "*=" -> NativeSArith(int128_native_times(l, r))
      [] o = "/=" -> NativeSDiv(l, r)
      [] o = "%=" -> NativeSMod(l, r)
      [] o = "&=" -> {ObserveNativeS(int128_native_and(l, r))}
      [] o = "|=" -> {ObserveNativeS(int128_native_or(l, r))}
      [] o = "^=" -> {ObserveNativeS(int128_native_xor(l, r))}
      [] o = "<<=" -> NativeSShl(l, m)
      [] o = ">>=" -> NativeSShr(l, m)

\* The arguments handed to the compound assignments.
Arguments ==
    {v \in Values : v.hi \in {0, SignBit64, Int64Max, LimbMax}
                    /\ v.lo \in {0, 1, LimbMax}}

\* A member operator: the receiver becomes one outcome of the binary operator
\* and the operator returns *this, so the caller reads the receiver.
Assign(o, y, m, P, N) ==
    /\ op' = o
    /\ b' = y
    /\ n' = m
    /\ \E p \in P, q \in N :
        /\ self' = [portable |-> p, native |-> q]
        /\ portable' = p
        /\ native' = q
    /\ UNCHANGED <<a, flags, os, loop>>

UCompoundAssign ==
    /\ op = "none"
    /\ \E o \in AssignOps, y \in Arguments :
        Assign("u" \o o, y, 0, UBinaryPortable(o, PU(a), PU(y), 0),
               UBinaryNative(o, NU(a), NU(y), 0))

UCompoundShift ==
    /\ op = "none"
    /\ \E o \in ShiftAssignOps, m \in ShiftAmounts :
        Assign("u" \o o, b, m, UBinaryPortable(o, PU(a), PU(b), m),
               UBinaryNative(o, NU(a), NU(b), m))

SCompoundAssign ==
    /\ op = "none"
    /\ \E o \in AssignOps, y \in Arguments :
        Assign("s" \o o, y, 0, SBinaryPortable(o, PS(a), PS(y), 0),
               SBinaryNative(o, NS(a), NS(y), 0))

SCompoundShift ==
    /\ op = "none"
    /\ \E o \in ShiftAssignOps, m \in ShiftAmounts :
        Assign("s" \o o, b, m, SBinaryPortable(o, PS(a), PS(b), m),
               SBinaryNative(o, NS(a), NS(b), m))

\* ++ and --: *this += 1 or *this -= 1; the prefix form returns *this, the
\* postfix form returns the copy tmp taken before, unless the step trapped.
IncDecOps == {"++x", "--x", "x++", "x--"}

StepOp(o) == IF o \in {"++x", "x++"} THEN "+=" ELSE "-="

IncDec(o, prefix, P, N, oldP, oldN) ==
    /\ op' = o
    /\ \E p \in P, q \in N :
        /\ self' = [portable |-> p, native |-> q]
        /\ portable' = (IF prefix \/ p.trap THEN p ELSE oldP)
        /\ native' = (IF prefix \/ q.trap THEN q ELSE oldN)
    /\ UNCHANGED <<a, b, n, flags, os, loop>>

UIncDec ==
    /\ op = "none"
    /\ \E o \in IncDecOps :
        IncDec("u" \o o, o \in {"++x", "--x"},
               UBinaryPortable(StepOp(o), PU(a), uint128_ctor_int(1), 0),
               UBinaryNative(StepOp(o), NU(a), uint128_native_ctor_int(1), 0),
               ObservePortable(PU(a)), ObserveNativeU(NU(a)))

SIncDec ==
    /\ op = "none"
    /\ \E o \in IncDecOps :
        IncDec("s" \o o, o \in {"++x", "--x"},
               SBinaryPortable(StepOp(o), PS(a), int128_ctor_int(1), 0),
               SBinaryNative(StepOp(o), NS(a), int128_native_ctor_int(1), 0),
               ObservePortable(PS(a)), ObserveNativeS(NS(a)))

\* The six comparison operators applied to one pair of operands.
Compare(o, y, P, N) ==
    /\ op' = o
    /\ b' = y
    /\ flags' = [portable |-> P, native |-> N]
    /\ UNCHANGED <<a, n, portable, native, os, loop, self>>

UCompare ==
    /\ op = "none"
    /\ \E y \in Values :
        Compare("ucmp", y,
            Compared(uint128_eq(PU(a), PU(y)), uint128_ne(PU(a), PU(y)),
                     uint128_lt(PU(a), PU(y)), uint128_gt(PU(a), PU(y)),
                     uint128_le(PU(a), PU(y)), uint128_ge(PU(a), PU(y))),
            Compared(uint128_native_eq(NU(a), NU(y)), uint128_native_ne(NU(a), NU(y)),
                     uint128_native_lt(NU(a), NU(y)), uint128_native_gt(NU(a), NU(y)),
                     uint128_native_le(NU(a), NU(y)), uint128_native_ge(NU(a), NU(y))))

SCompare ==
    /\ op = "none"
    /\ \E y \in Values :
        Compare("scmp", y,
            Compared(int128_eq(PS(a), PS(y)), int128_ne(PS(a), PS(y)),
                     int128_lt(PS(a), PS(y)), int128_gt(PS(a), PS(y)),
                     int128_le(PS(a), PS(y)), int128_ge(PS(a), PS(y))),
            Compared(int128_native_eq(NS(a), NS(y)), int128_native_ne(NS(a), NS(y)),
                     int128_native_lt(NS(a), NS(y)), int128_native_gt(NS(a), NS(y)),
                     int128_native_le(NS(a), NS(y)), int128_native_ge(NS(a), NS(y))))

Next ==
    \/ UAdd \/ USub \/ UMul \/ UDiv \/ UMod
    \/ SAdd \/ SSub \/ SMul \/ SDiv \/ SMod
    \/ UShl \/ UShr \/ SShl \/ SShr
    \/ UNeg \/ SNeg
    \/ UFromParts \/ SFromParts
    \/ UCtorSigned \/ UCtorUnsigned \/ SCtorSigned \/ SCtorUnsigned
    \/ UFromInt128 \/ SFromUint128
    \/ UCompare \/ SCompare
    \/ UPut \/ SPut
    \/ UHash \/ SHash
    \/ DividePortable
    \/ UCompoundAssign \/ UCompoundShift \/ SCompoundAssign \/ SCompoundShift
    \/ UIncDec \/ SIncDec
    \/ UMinLimit \/ UMaxLimit \/ SMinLimit \/ SMaxLimit \/ UMaxSucc \/ SMaxSucc

Spec == Init /\ [][Next]_vars

(***************************************************************************)
(* Reading operands and results as numbers.                                *)
(***************************************************************************)
\* The operand v read as unsigned and as two's complement.
UVal(v) == v.hi * LimbMod + v.lo

SVal(v) == ToInt64(v.hi) * LimbMod + v.lo

\* The number a result stands for: high() * 2^64 + low(), high() signed for int128.
Val(r) == r.hi * LimbMod + r.lo

\* The bit pattern of a result, as an unsigned number.
Pattern(r) == ToUint64(r.hi) * LimbMod + r.lo

Backends == {portable, native}

Zero == [hi |-> 0, lo |-> 0]

UMax == [hi |-> LimbMax, lo |-> LimbMax]

SMin == [hi |-> SignBit64, lo |-> 0]

SMax == [hi |-> Int64Max, lo |-> LimbMax]

MinusOne == UMax

One == [hi |-> 0, lo |-> 1]

(***************************************************************************)
(* Properties.                                                             *)
(***************************************************************************)

\* C1: unsigned a * b on the portable kernel (multiply_portable) is the exact
\* product of a and b reduced modulo 2^128; in particular 10 * 10 = 100 and
\* MAX * 2 = MAX - 1.
C1_MultiplyIsProductModWord ==
    op = "umul" =>
        /\ ~portable.trap
        /\ Val(portable) = (UVal(a) * UVal(b)) % WordMod
        /\ (UVal(a) = 10 /\ UVal(b) = 10 => Val(portable) = 100)
        /\ (a = UMax /\ UVal(b) = 2 => Val(portable) = UVal(UMax) - 1)

\* A product that wraps and whose 32-bit cross terms carry into the high limb.
C1_Witness ==
    /\ op = "umul"
    /\ a = UMax /\ UVal(b) = 2
    /\ UVal(a) * UVal(b) >= WordMod
    /\ Val(portable) = UVal(UMax) - 1

\* C2: for unsigned a and b # 0, a / b is the floor quotient and a % b the
\* matching remainder: (a / b) * b + (a % b) = a and a % b < b; from_parts(1, 5) % 2 = 1.
C2_UnsignedDivMod ==
    /\ op = "udiv" /\ UVal(b) # 0 =>
         \A r \in Backends :
            /\ ~r.trap
            /\ Val(r) = UVal(a) \div UVal(b)
         /\ uint128_plus(uint128_times(uint128_from_parts(portable.hi, portable.lo), PU(b)),
                         uint128_mod(PU(a), PU(b))) = PU(a)
    /\ op = "umod" /\ UVal(b) # 0 =>
         \A r \in Backends :
            /\ ~r.trap
            /\ Val(r) = UVal(a) % UVal(b)
            /\ Val(r) < UVal(b)
            /\ (a = [hi |-> 1, lo |-> 5] /\ UVal(b) = 2 => Val(r) = 1)
         /\ uint128_plus(uint128_times(uint128_div(PU(a), PU(b)), PU(b)),
                         uint128_from_parts(portable.hi, portable.lo)) = PU(a)

\* A division whose quotient has several bits and whose remainder is not 0.
C2_Witness ==
    /\ op = "umod"
    /\ a = [hi |-> 1, lo |-> 5] /\ UVal(b) = 2
    /\ Val(portable) = 1
    /\ Val(uint128_div(PU(a), PU(b))) = 10

\* C3: a / 0 and a % 0 are 0 for every dividend, unsigned and signed
\* (negative dividends too), with no trap.
C3_DivModByZeroIsZero ==
    op \in {"udiv", "umod", "sdiv", "smod"} /\ b = Zero =>
        \A r \in Backends : ~r.trap /\ r.hi = 0 /\ r.lo = 0

\* A negative signed dividend taken modulo zero.
C3_Witness ==
    /\ op = "smod" /\ b = Zero /\ SVal(a) < 0
    /\ portable = Returned(0, 0) /\ native = Returned(0, 0)

\* C4: signed division truncates toward zero: for b # 0, other than MIN / -1,
\* a / b has magnitude floor(|a| / |b|) and is negative only when exactly one
\* operand is negative, a % b has magnitude |a| mod |b| and never the sign
\* opposite to a, and (a / b) * b + (a % b) = a.
C4_SignedDivTruncates ==
    /\ op = "sdiv" /\ SVal(b) # 0 /\ ~(a = SMin /\ b = MinusOne) =>
         \A r \in Backends :
            /\ ~r.trap
            /\ Abs(Val(r)) = Abs(SVal(a)) \div Abs(SVal(b))
            /\ (Val(r) < 0 => (SVal(a) < 0) # (SVal(b) < 0))
            /\ Val(r) * SVal(b) + TruncRem(SVal(a), SVal(b)) = SVal(a)
    /\ op = "smod" /\ SVal(b) # 0 /\ ~(a = SMin /\ b = MinusOne) =>
         \A r \in Backends :
            /\ ~r.trap
            /\ Abs(Val(r)) = Abs(SVal(a)) % Abs(SVal(b))
            /\ (Val(r) < 0 => SVal(a) < 0)
            /\ (Val(r) > 0 => SVal(a) > 0)
            /\ TruncDiv(SVal(a), SVal(b)) * SVal(b) + Val(r) = SVal(a)

\* C5: MIN / -1 does not fault and returns MIN; the absolute value the signed
\* division takes of MIN is the bit pattern 2^127.
C5_MinDivMinusOne ==
    op = "sdiv" /\ a = SMin /\ b = MinusOne =>
        /\ int128_abs(PS(a)) = uint128_from_parts(SignBit64, 0)
        /\ \A r \in Backends : ~r.trap /\ Val(r) = Int128Min

\* C6: unsigned a + b is (a + b) mod 2^128: the low limb is the wrapped sum of
\* the low limbs, a carry of 1 goes to the high limb iff the wrapped low limb
\* is less than a.low, and the high limb is a.high + b.high + carry, wrapped.
C6_AddCarry ==
    op = "uadd" =>
        \A r \in Backends :
            LET carry == IF r.lo < a.lo THEN 1 ELSE 0
            IN  /\ ~r.trap
                /\ r.lo = (a.lo + b.lo) % LimbMod
                /\ r.hi = (a.hi + b.hi + carry) % LimbMod
                /\ (carry = 1 <=> a.lo + b.lo >= LimbMod)
                /\ Val(r) = (UVal(a) + UVal(b)) % WordMod

\* A sum whose low limbs carry into the high limb and whose high limb wraps too.
C6_Witness ==
    /\ op = "uadd"
    /\ a.lo + b.lo >= LimbMod
    /\ a.hi + b.hi + 1 >= LimbMod
    /\ portable.lo < a.lo
    /\ Val(portable) = UVal(a) + UVal(b) - WordMod

\* C7: unsigned a - b is (a - b) mod 2^128: the low limb is the wrapped
\* difference of the low limbs, a borrow of 1 is taken from the high limb iff
\* a.low < b.low, and the high limb is a.high - b.high - borrow, wrapped.
C7_SubBorrow ==
    op = "usub" =>
        \A r \in Backends :
            LET borrow == IF a.lo < b.lo THEN 1 ELSE 0
            IN  /\ ~r.trap
                /\ r.lo = (a.lo - b.lo) % LimbMod
                /\ r.hi = (a.hi - b.hi - borrow) % LimbMod
                /\ Val(r) = (UVal(a) - UVal(b)) % WordMod

\* A difference that borrows from the high limb and wraps below zero.
C7_Witness ==
    /\ op = "usub"
    /\ a.lo < b.lo
    /\ UVal(a) < UVal(b)
    /\ Val(portable) = UVal(a) - UVal(b) + WordMod

\* C8: signed +, - and * never trap and are never undefined on overflow: the
\* result has the bit pattern of the unsigned operation on the operands' bit
\* patterns; MAX + 1 = MIN and MIN - 1 = MAX.
C8_SignedArithmeticWraps ==
    /\ op = "sadd" =>
         \A r \in Backends :
            /\ ~r.trap
            /\ Pattern(r) = (UVal(a) + UVal(b)) % WordMod
            /\ (a = SMax /\ b = One => Val(r) = Int128Min)
    /\ op = "ssub" =>
         \A r \in Backends :
            /\ ~r.trap
            /\ Pattern(r) = (UVal(a) - UVal(b)) % WordMod
            /\ (a = SMin /\ b = One => Val(r) = Int128Max)
    /\ op = "smul" =>
         \A r \in Backends :
            /\ ~r.trap
            /\ Pattern(r) = (UVal(a) * UVal(b)) % WordMod

\* C9: the native and the portable backend return bit-identical results for
\* every operator on every operand pair and every shift amount >= 0, division
\* by zero, shift amounts >= 128, signed overflow and MIN / -1 included.
C9_BackendsAgree ==
    op # "none" =>
        /\ ~portable.trap /\ ~native.trap
        /\ Pattern(portable) = Pattern(native)

\* C10: shifts saturate for every amount n >= 128: x << n is 0 for both types,
\* x >> n is 0 for uint128, and for int128 x >> n is -1 for negative x and 0
\* otherwise.
C10_ShiftsSaturate ==
    n >= Bits =>
        /\ op \in {"ushl", "sshl", "ushr"} =>
             \A r \in Backends : ~r.trap /\ r.hi = 0 /\ r.lo = 0
        /\ op = "sshr" =>
             \A r \in Backends :
                ~r.trap /\ Val(r) = (IF SVal(a) < 0 THEN 0 - 1 ELSE 0)

\* C11: for every value x of either type and every n in 0..127, x << n has the
\* bit pattern (x * 2^n) mod 2^128: n = 0 is the identity, for n >= 64 the high
\* limb is low << (n - 64) and the low limb 0, otherwise the high limb is
\* (high << n) | (low >> (64 - n)) and the low limb low << n.
C11_ShiftLeft ==
    op \in {"ushl", "sshl"} /\ n < Bits =>
        \A r \in Backends :
            /\ ~r.trap
            /\ Pattern(r) = (UVal(a) * Pow2(n)) % WordMod
            /\ (n = 0 => ToUint64(r.hi) = a.hi /\ r.lo = a.lo)
            /\ (n >= LimbBits =>
                    ToUint64(r.hi) = Shl64(a.lo, n - LimbBits) /\ r.lo = 0)
            /\ (n > 0 /\ n < LimbBits =>
                    /\ ToUint64(r.hi) = BitOr(Shl64(a.hi, n), Shr64(a.lo, LimbBits - n))
                    /\ r.lo = Shl64(a.lo, n))

\* A shift below 64 that carries set bits of the low limb into the high limb and
\* pushes set bits of the high limb out.
C11_Witness ==
    /\ op = "sshl" /\ n = 1
    /\ a.lo >= SignBit64 /\ a.hi >= SignBit64
    /\ ToUint64(portable.hi) % 2 = 1
    /\ Pattern(portable) = UVal(a) * 2 - WordMod

\* C12: for every uint128 x and every n in 0..127, x >> n is floor(x / 2^n): the
\* vacated high bits are zero and the bits of the high limb that cross the
\* boundary appear at the top of the low limb.
C12_ShiftRightUnsigned ==
    op = "ushr" /\ n < Bits =>
        \A r \in Backends :
            /\ ~r.trap
            /\ Val(r) = UVal(a) \div Pow2(n)
            /\ (n > 0 /\ n < LimbBits =>
                    /\ r.hi = Shr64(a.hi, n)
                    /\ r.lo \div Pow2(LimbBits - n) = a.hi % Pow2(n))
            /\ (n >= LimbBits => r.hi = 0 /\ r.lo = Shr64(a.hi, n - LimbBits))

\* A shift below 64 that moves set bits of the high limb into the low limb.
C12_Witness ==
    /\ op = "ushr" /\ n = LimbBits - 1
    /\ a.hi = LimbMax /\ a.lo = 0
    /\ portable.hi = 1 /\ portable.lo = LimbMax - 1

\* C13: for every int128 x and every n in 0..127, x >> n is the arithmetic right
\* shift, floor(x / 2^n) of the signed value, the vacated high bits filled with
\* the sign bit; at n = 63, 64 and 127 too, for negative and non-negative x.
C13_ShiftRightArithmetic ==
    op = "sshr" /\ n < Bits =>
        \A r \in Backends :
            /\ ~r.trap
            /\ Val(r) = SVal(a) \div Pow2(n)
            /\ Pattern(r) = (UVal(a) \div Pow2(n))
                            + (IF SVal(a) < 0 THEN WordMod - Pow2(Bits - n) ELSE 0)

\* A negative value shifted by exactly 64: the high limb becomes all ones.
C13_Witness ==
    /\ op = "sshr" /\ n = LimbBits
    /\ SVal(a) < 0 /\ a.hi # LimbMax
    /\ portable.hi = 0 - 1
    /\ portable.lo = a.hi

\* C14: comparison is a total order that agrees with the numeric value: for
\* uint128, a < b iff (a.high, a.low) precedes (b.high, b.low) lexicographically,
\* both limbs unsigned; for int128 the high limb is compared as signed and the
\* low limb as unsigned; exactly one of a < b, a == b, a > b holds, and <=, >=,
\* != are the negations of >, <, ==.
C14_TotalOrder ==
    /\ op = "ucmp" =>
         \A f \in {flags.portable, flags.native} :
            /\ f.lt <=> UVal(a) < UVal(b)
            /\ f.lt <=> (a.hi < b.hi \/ (a.hi = b.hi /\ a.lo < b.lo))
            /\ f.eq <=> UVal(a) = UVal(b)
            /\ f.gt <=> UVal(a) > UVal(b)
            /\ Cardinality({x \in {"lt", "eq", "gt"} : f[x]}) = 1
            /\ f.le = ~f.gt /\ f.ge = ~f.lt /\ f.ne = ~f.eq
    /\ op = "scmp" =>
         \A f \in {flags.portable, flags.native} :
            /\ f.lt <=> SVal(a) < SVal(b)
            /\ f.lt <=> \/ ToInt64(a.hi) < ToInt64(b.hi)
                        \/ (a.hi = b.hi /\ a.lo < b.lo)
            /\ f.eq <=> SVal(a) = SVal(b)
            /\ f.gt <=> SVal(a) > SVal(b)
            /\ Cardinality({x \in {"lt", "eq", "gt"} : f[x]}) = 1
            /\ f.le = ~f.gt /\ f.ge = ~f.lt /\ f.ne = ~f.eq

\* A negative value compared with a non-negative one whose bit pattern is smaller.
C14_Witness ==
    /\ op = "scmp"
    /\ SVal(a) < 0 /\ SVal(b) >= 0 /\ UVal(a) > UVal(b) /\ a.lo > b.lo
    /\ flags.portable.lt /\ flags.portable.le /\ flags.portable.ne
    /\ ~flags.portable.gt /\ ~flags.portable.ge /\ ~flags.portable.eq

\* C15: unary minus is two's-complement negation for every value of both
\* types: -x == ~x + 1 (the high limb receives +1 exactly when the low limb is
\* 0), it never faults, and negating the int128 minimum yields the minimum.
C15_UnaryMinus ==
    /\ op = "uneg" =>
         /\ \A r \in Backends : ~r.trap /\ Val(r) = (WordMod - UVal(a)) % WordMod
         /\ portable = ObservePortable(uint128_plus(uint128_not(PU(a)), uint128_ctor_int(1)))
         /\ native = ObserveNativeU(uint128_native_plus(uint128_native_not(NU(a)), 1))
         /\ portable.hi = U64(Not64(a.hi) + (IF a.lo = 0 THEN 1 ELSE 0))
    /\ op = "sneg" =>
         /\ \A r \in Backends : ~r.trap /\ Pattern(r) = (WordMod - UVal(a)) % WordMod
         /\ ToUint64(portable.hi) = U64(Not64(a.hi) + (IF a.lo = 0 THEN 1 ELSE 0))
         /\ a = SMin => \A r \in Backends : Pattern(r) = UVal(SMin)

\* C16: from_parts and (high(), low()) are exact inverses for both types:
\* from_parts(h, l).high() == h and from_parts(h, l).low() == l for all h, l;
\* from_parts(v.high(), v.low()) == v for every value v; and distinct (h, l)
\* pairs give unequal values.
C16_FromPartsInverse ==
    /\ op = "uparts" =>
         \A r \in Backends : ~r.trap /\ r.hi = a.hi /\ r.lo = a.lo
    /\ op = "sparts" =>
         \A r \in Backends : ~r.trap /\ r.hi = ToInt64(a.hi) /\ r.lo = a.lo
    /\ op \in {"uparts", "sparts"} =>
         \A f \in {flags.portable, flags.native} : f.eq /\ ~f.ne
    /\ op \in {"ucmp", "scmp"} =>
         \A f \in {flags.portable, flags.native} :
            /\ f.eq <=> (a.hi = b.hi /\ a.lo = b.lo)
            /\ f.ne <=> (a.hi # b.hi \/ a.lo # b.lo)

\* A negative high limb with the top bit of the low limb set, read back.
C16_Witness ==
    /\ op = "sparts"
    /\ ToInt64(a.hi) < 0 /\ a.lo >= SignBit64
    /\ native.hi = ToInt64(a.hi) /\ native.lo = a.lo /\ flags.native.eq

\* C17: construction from a native integer of up to 64 bits sign-extends: for
\* both types a negative signed source gives a high limb of all one bits and a
\* low limb equal to the source's 64-bit two's-complement pattern, an unsigned
\* or non-negative source gives a high limb of zero and a low limb equal to the
\* source; so uint128(-1) is the uint128 maximum.
C17_ConstructionSignExtends ==
    /\ op \in {"uctor_s", "sctor_s"} =>
         \A r \in Backends :
            /\ ~r.trap
            /\ r.lo = ToUint64(ToInt64(a.lo))
            /\ ToUint64(r.hi) = (IF ToInt64(a.lo) < 0 THEN LimbMax ELSE 0)
            /\ ToInt64(a.lo) >= 0 => r.lo = ToInt64(a.lo)
    /\ op = "uctor_s" =>
         \A r \in Backends :
            /\ r.hi = ToUint64(r.hi)
            /\ ToInt64(a.lo) = 0 - 1 => Val(r) = UVal(UMax)
    /\ op = "sctor_s" =>
         \A r \in Backends : Val(r) = ToInt64(a.lo)
    /\ op \in {"uctor_u", "sctor_u"} =>
         \A r \in Backends : ~r.trap /\ r.hi = 0 /\ r.lo = a.lo

\* uint128(-1) built on both backends.
C17_Witness ==
    /\ op = "uctor_s"
    /\ ToInt64(a.lo) = 0 - 1
    /\ \A r \in Backends : r.hi = LimbMax /\ r.lo = LimbMax

\* C18: conversion between uint128 and int128 is pure bit reinterpretation:
\* both limbs are preserved bit for bit in each direction, so
\* uint128(int128(u)) == u for every u and int128(uint128(i)) == i for every i,
\* with no range check.
C18_ConversionReinterprets ==
    /\ op = "u_from_s" =>
         /\ \A r \in Backends : ~r.trap /\ r.hi = a.hi /\ r.lo = a.lo
         /\ \A f \in {flags.portable, flags.native} : f.eq /\ ~f.ne
    /\ op = "s_from_u" =>
         /\ \A r \in Backends : ~r.trap /\ r.hi = ToInt64(a.hi) /\ r.lo = a.lo
         /\ \A f \in {flags.portable, flags.native} : f.eq /\ ~f.ne

\* A uint128 above the int128 maximum converted to int128: it comes out negative
\* with the same bits.
C18_Witness ==
    /\ op = "s_from_u"
    /\ UVal(a) > Int128Max
    /\ \A r \in Backends : r.hi < 0 /\ Pattern(r) = UVal(a)
    /\ flags.portable.eq /\ flags.native.eq

\* C19: addition and multiplication are commutative for all operands of both
\* types: a + b == b + a and a * b == b * a.
C19_Commutative ==
    /\ op = "uadd" =>
         /\ portable = ObservePortable(uint128_plus(PU(b), PU(a)))
         /\ native = ObserveNativeU(uint128_native_plus(NU(b), NU(a)))
    /\ op = "umul" =>
         /\ portable = ObservePortable(uint128_times(PU(b), PU(a)))
         /\ native = ObserveNativeU(uint128_native_times(NU(b), NU(a)))
    /\ op = "sadd" =>
         /\ portable = ObservePortable(int128_plus(PS(b), PS(a)))
         /\ native = ObserveNativeS(ToInt128(ToUint128(int128_native_plus(NS(b), NS(a)))))
    /\ op = "smul" =>
         /\ portable = ObservePortable(int128_times(PS(b), PS(a)))
         /\ native = ObserveNativeS(ToInt128(ToUint128(int128_native_times(NS(b), NS(a)))))

\* C20: for every uint128 a, unary -a equals 0 - a and a + (-a) == 0.
C20_UnsignedAdditiveInverse ==
    op = "uneg" =>
        /\ portable = ObservePortable(uint128_minus(uint128_ctor_int(0), PU(a)))
        /\ native = ObserveNativeU(uint128_native_minus(uint128_native_ctor_int(0), NU(a)))
        /\ ~portable.trap /\ ~native.trap
        /\ uint128_eq(uint128_plus(PU(a), uint128_from_parts(portable.hi, portable.lo)),
                      uint128_ctor_int(0))
        /\ uint128_native_eq(
               uint128_native_plus(NU(a), uint128_native_from_parts(native.hi, native.lo)),
               uint128_native_ctor_int(0))

\* A value with a zero low limb and a non-zero high limb negated: the carry
\* reaches the high limb.
C20_Witness ==
    /\ op = "uneg"
    /\ a.lo = 0 /\ a.hi > 1
    /\ \A r \in Backends : r.lo = 0 /\ r.hi = LimbMod - a.hi

\* The number a string of digit characters denotes in base 10, most significant
\* digit first.
RECURSIVE DecimalValue(_)
DecimalValue(chars) ==
    IF chars = <<>> THEN 0
    ELSE 10 * DecimalValue(SubSeq(chars, 1, Len(chars) - 1)) + (chars[Len(chars)] - Char0)

\* chars is the canonical base-10 string of x >= 0: digits only, no leading
\* zero unless x is 0, denoting x.
Canonical(chars, x) ==
    /\ Len(chars) >= 1
    /\ \A k \in 1 .. Len(chars) : chars[k] \in Char0 .. (Char0 + 9)
    /\ Len(chars) > 1 => chars[1] # Char0
    /\ DecimalValue(chars) = x

\* C21: stream output writes the canonical base-10 digits of the value, most
\* significant first, with no leading zeros: 0 is written as "0", a negative
\* int128 as '-' followed by the digits of its magnitude, and the uint128
\* maximum and the int128 minimum are written in full like any other value.
C21_StreamOutput ==
    /\ op = "uput" =>
         \A w \in {os.portable, os.native} :
            /\ ~w.trap /\ ~w.overrun
            /\ Canonical(w.chars, UVal(a))
            /\ a = Zero => w.chars = <<Char0>>
    /\ op = "sput" =>
         \A w \in {os.portable, os.native} :
            /\ ~w.trap /\ ~w.overrun
            /\ SVal(a) >= 0 => Canonical(w.chars, SVal(a))
            /\ SVal(a) < 0 =>
                 /\ Len(w.chars) >= 2 /\ w.chars[1] = CharMinus
                 /\ Canonical(Tail(w.chars), 0 - SVal(a))

HashOps == {"uhash_identity", "uhash_mixing", "shash_identity", "shash_mixing"}

\* C22: the hash, hash(low) XOR (hash(high) << 1), gives different results for
\* any two 128-bit values with the same low limb and different high limbs, for
\* uint128 and for int128.
C22_HashSeparatesHighLimbs ==
    (op \in HashOps /\ a.lo = b.lo /\ a.hi # b.hi) =>
        /\ flags.portable.ne /\ ~flags.portable.eq
        /\ flags.native.ne /\ ~flags.native.eq

\* C23: the advertised bounds are the true extremes of the order: min() is 0
\* and max() is 2^128 - 1 for uint128, min() is -2^127 and max() is 2^127 - 1
\* for int128; every value v of a type satisfies min() <= v <= max(); and
\* max() + 1 == min() for both types.
C23_LimitsAreExtremes ==
    /\ op = "umin" => \A r \in Backends : Val(r) = 0
    /\ op = "umax" => \A r \in Backends : Val(r) = Pow2(Bits) - 1
    /\ op = "smin" => \A r \in Backends : Val(r) = 0 - Pow2(Bits - 1)
    /\ op = "smax" => \A r \in Backends : Val(r) = Pow2(Bits - 1) - 1
    /\ op \in {"umin", "umax", "smin", "smax"} =>
         \A f \in {flags.portable, flags.native} : f.le /\ ~f.gt
    /\ op \in {"umax_succ", "smax_succ"} =>
         /\ \A r \in Backends : ~r.trap
         /\ \A f \in {flags.portable, flags.native} : f.eq /\ ~f.ne

U64Max == [hi |-> 0, lo |-> LimbMax]

\* C24 as stated: from_parts(0, 0) + from_parts(0, u64::MAX) equals
\* from_parts(1, 0).
C24_ZeroPlusU64Max ==
    (op = "uadd" /\ a = Zero /\ b = U64Max) =>
        \A r \in Backends : ~r.trap /\ r.hi = 1 /\ r.lo = 0

\* C24, amended: from_parts(0, 1) + from_parts(0, u64::MAX) equals
\* from_parts(1, 0): the low limbs wrap to 0 and the carry goes into the high
\* limb.
C24_CarryPropagation ==
    (op = "uadd" /\ a = One /\ b = U64Max) =>
        /\ \A r \in Backends : ~r.trap /\ r.hi = 1 /\ r.lo = 0
        /\ uint128_eq(uint128_from_parts(portable.hi, portable.lo), uint128_from_parts(1, 0))
        /\ uint128_native_eq(uint128_native_from_parts(native.hi, native.lo),
                             uint128_native_from_parts(1, 0))

C24_Witness ==
    /\ op = "uadd" /\ a = One /\ b = U64Max
    /\ portable = Returned(1, 0) /\ native = Returned(1, 0)

\* C25 as stated: whenever the divisor is 0 or the dividend is less than the
\* divisor, a % b returns the dividend a unchanged (and a / b returns 0).
C25_ModReturnsDividend ==
    (UVal(b) = 0 \/ UVal(a) < UVal(b)) =>
        /\ op = "umod" => \A r \in Backends : ~r.trap /\ r.hi = a.hi /\ r.lo = a.lo
        /\ op = "udiv" => \A r \in Backends : ~r.trap /\ Val(r) = 0

\* C25, amended: whenever the divisor is not 0 and the dividend is less than
\* the divisor, a % b returns the dividend a unchanged; when the divisor is 0,
\* a % b returns 0; in both cases a / b returns 0.
C25_ModEarlyExit ==
    /\ (op = "umod" /\ UVal(b) # 0 /\ UVal(a) < UVal(b)) =>
         \A r \in Backends : ~r.trap /\ r.hi = a.hi /\ r.lo = a.lo
    /\ (op = "umod" /\ UVal(b) = 0) =>
         \A r \in Backends : ~r.trap /\ r.hi = 0 /\ r.lo = 0
    /\ (op = "udiv" /\ (UVal(b) = 0 \/ UVal(a) < UVal(b))) =>
         \A r \in Backends : ~r.trap /\ r.hi = 0 /\ r.lo = 0

\* A dividend with a non-zero high limb below its divisor, returned unchanged.
C25_Witness ==
    /\ op = "umod"
    /\ UVal(b) # 0 /\ UVal(a) < UVal(b) /\ a.hi > 0 /\ a.lo > 0
    /\ portable = Returned(a.hi, a.lo) /\ native = Returned(a.hi, a.lo)

\* How many times each loop of the recorded call of divide_portable ran its body.
ScanIterations == IF loop.scan = <<>> THEN 0 ELSE Len(loop.scan) - 1

SubtractIterations == IF loop.steps = <<>> THEN 0 ELSE Len(loop.steps) - 1

\* C26: long division always terminates within the stated bound: for every
\* dividend and divisor the shift-scan loop of divide_portable runs at most 127
\* times and ends with 0 <= shift <= 127, and the subtract loop runs at most
\* 128 times.
C26_DivisionLoopsBounded ==
    op = "divide" =>
        /\ loop.called
        /\ ScanIterations <= Bits - 1
        /\ SubtractIterations <= Bits
        /\ loop.scan # <<>> =>
             LET last == loop.scan[Len(loop.scan)]
             IN  /\ last.shift \in 0 .. (Bits - 1)
                 /\ last.shift = ScanIterations
                 /\ last = shift_scan(PU(b), 0, PU(a))
                 /\ SubtractIterations = last.shift + 1
        /\ loop.steps # <<>> =>
             LET exit == loop.steps[Len(loop.steps)]
             IN  /\ exit.i = 0 - 1
                 /\ portable = ObservePortable(exit.quotient)

\* The largest dividend over a divisor of 1: both loops run their maximum.
C26_Witness ==
    /\ op = "divide"
    /\ a = UMax /\ b = One
    /\ ScanIterations = Bits - 1
    /\ SubtractIterations = Bits

Receivers == {self.portable, self.native}

\* C27: every compound operator leaves the receiver equal to the result of the
\* corresponding binary operator on the receiver's previous value and the
\* argument, and changes nothing else; prefix ++/-- add/subtract 1 with
\* wraparound and return the new value; postfix ++/-- return the previous
\* value while the receiver becomes previous +/- 1.
C27_CompoundOperators ==
    LET assigns == AssignOps \cup ShiftAssignOps
        increments == {"u++x", "ux++", "s++x", "sx++"}
        decrements == {"u--x", "ux--", "s--x", "sx--"}
        prefix == {"u++x", "u--x", "s++x", "s--x"}
        postfix == {"ux++", "ux--", "sx++", "sx--"}
    IN  /\ \A o \in assigns :
             /\ op = "u" \o o =>
                  /\ self.portable \in UBinaryPortable(o, PU(a), PU(b), n)
                  /\ self.native \in UBinaryNative(o, NU(a), NU(b), n)
                  /\ portable = self.portable /\ native = self.native
             /\ op = "s" \o o =>
                  /\ self.portable \in SBinaryPortable(o, PS(a), PS(b), n)
                  /\ self.native \in SBinaryNative(o, NS(a), NS(b), n)
                  /\ portable = self.portable /\ native = self.native
        /\ op \in increments =>
             \A r \in Receivers : ~r.trap /\ Pattern(r) = (UVal(a) + 1) % WordMod
        /\ op \in decrements =>
             \A r \in Receivers : ~r.trap /\ Pattern(r) = (UVal(a) - 1) % WordMod
        /\ op \in prefix => portable = self.portable /\ native = self.native
        /\ op \in postfix => \A r \in Backends : ~r.trap /\ Pattern(r) = UVal(a)

\* The shift with which the recorded call of divide_portable entered its
\* subtract loop.
StartShift == loop.scan[Len(loop.scan)].shift

\* divisor << s neither exceeds the dividend nor overflows past the top bit.
Fits(s) == UVal(b) * Pow2(s) <= UVal(a) /\ UVal(b) * Pow2(s) < WordMod

\* C28 as stated: when divisor != 0 and dividend >= divisor, the shift at
\* which divide_portable starts its subtract loop is the largest s such that
\* divisor << s does not exceed the dividend and does not overflow past bit 127.
C28_StartShiftIsLargestFitting ==
    (op = "divide" /\ UVal(b) # 0 /\ UVal(a) >= UVal(b)) =>
        /\ Fits(StartShift)
        /\ \A t \in (StartShift + 1) .. (Bits - 1) : ~Fits(t)

\* divisor << s exceeds the dividend or has the top bit set.
Stops(s) == UVal(b) * Pow2(s) > UVal(a) \/ UVal(b) * Pow2(s) >= Pow2(Bits - 1)

\* C28, amended: when divisor != 0 and dividend >= divisor, the shift at which
\* divide_portable starts its subtract loop is the smallest s such that
\* divisor << s exceeds the dividend or has bit 127 set; divisor << s does not
\* overflow past bit 127, and s is the largest shift whose shifted divisor does
\* not exceed the dividend, or one more than it.
C28_StartShiftIsFirstStop ==
    (op = "divide" /\ UVal(b) # 0 /\ UVal(a) >= UVal(b)) =>
        /\ StartShift \in 0 .. (Bits - 1)
        /\ Stops(StartShift)
        /\ \A t \in 0 .. (StartShift - 1) : ~Stops(t)
        /\ UVal(b) * Pow2(StartShift) < WordMod
        /\ \/ Fits(StartShift) /\ \A t \in (StartShift + 1) .. (Bits - 1) : ~Fits(t)
           \/ /\ StartShift >= 1
              /\ Fits(StartShift - 1)
              /\ \A t \in StartShift .. (Bits - 1) : ~Fits(t)

\* A dividend whose top bit is clear: the scan stops one shift past the
\* largest one that fits.
C28_Witness ==
    /\ op = "divide"
    /\ UVal(b) # 0 /\ UVal(a) >= UVal(b) /\ a.hi < SignBit64 /\ a.hi > 0
    /\ StartShift >= 2
    /\ ~Fits(StartShift) /\ Fits(StartShift - 1)

\* C29: in the subtract loop of divide_portable, before and after every
\* iteration dividend == quotient * divisor + remainder with no wraparound; the
\* shifted divisor divisor << i loses no bits for any i in 0..shift; after the
\* iteration for index i the remainder is less than divisor << i; bit i of the
\* quotient is set at most once; hence on exit remainder < divisor.
C29_SubtractLoopInvariant ==
    (op = "divide" /\ loop.steps # <<>>) =>
        LET steps == loop.steps
            last == steps[Len(steps)]
        IN  /\ steps[1].i = StartShift
            /\ \A k \in 1 .. Len(steps) :
                 UVal(a) = UVal(steps[k].quotient) * UVal(b) + UVal(steps[k].remainder)
            /\ \A i \in 0 .. StartShift :
                 /\ UVal(b) * Pow2(i) < WordMod
                 /\ UVal(uint128_shl(PU(b), i)) = UVal(b) * Pow2(i)
            /\ \A k \in 1 .. (Len(steps) - 1) :
                 /\ steps[k + 1].i = steps[k].i - 1
                 /\ UVal(steps[k + 1].remainder) < UVal(b) * Pow2(steps[k].i)
                 /\ UVal(steps[k].quotient) % Pow2(steps[k].i + 1) = 0
                 /\ UVal(steps[k + 1].quotient) - UVal(steps[k].quotient)
                        \in {0, Pow2(steps[k].i)}
            /\ last.i = 0 - 1
            /\ UVal(last.remainder) < UVal(b)
            /\ portable = ObservePortable(last.quotient)

\* A division in which some iterations subtract and others do not, and a
\* remainder is left.
C29_Witness ==
    /\ op = "divide"
    /\ Len(loop.steps) >= 4
    /\ \E k \in 1 .. (Len(loop.steps) - 1) :
         loop.steps[k + 1].quotient # loop.steps[k].quotient
    /\ \E k \in 2 .. (Len(loop.steps) - 1) :
         loop.steps[k + 1].quotient = loop.steps[k].quotient
    /\ UVal(loop.steps[Len(loop.steps)].remainder) > 0
    /\ b.hi > 0

\* C30: in the decimal formatter for uint128, every digit produced is in
\* 0..9, the digit loop terminates for every value (after one iteration per
\* decimal digit of the value), and the write index pos never exceeds
\* sizeof(buffer) - 1, so every write stays inside the buffer; the maximum
\* value, with sizeof(buffer) - 1 digits, is the worst case.
C30_FormatterStaysInBuffer ==
    (op = "uput") =>
        \A w \in {os.portable, os.native} :
            /\ ~w.overrun
            /\ ~w.trap
            /\ \A k \in 1 .. Len(w.chars) : w.chars[k] \in Char0 .. (Char0 + 9)
            /\ Len(w.chars) = DecimalDigits(UVal(a))
            /\ Len(w.chars) <= DecimalDigits(WordMod - 1)
            /\ DecimalDigits(WordMod - 1) = BufferSize - 1

\* The maximum value is printed: the buffer is filled up to its last slot
\* but one.
C30_Witness ==
    /\ op = "uput"
    /\ UVal(a) = WordMod - 1
    /\ Len(os.portable.chars) = BufferSize - 1
    /\ Len(os.native.chars) = BufferSize - 1
    /\ \E k \in 1 .. Len(os.portable.chars) : os.portable.chars[k] # Char0

====
